---- MODULE Spec2Model ----
(***************************************************************************)
(* A model of the travel-deal tracker: the deal store (app/tracker.py),    *)
(* the alert throttle (app/alerts.py), the price-history statistics        *)
(* (app/models.py) and the package evaluation and ranking                  *)
(* (app/calculator.py).                                                    *)
(*                                                                         *)
(* Conventions.                                                            *)
(*  - A Python str that takes part in a formatted key is a sequence of     *)
(*    tokens; "_" and "-" are tokens of their own, so that an f-string is  *)
(*    the concatenation of its pieces.                                     *)
(*  - An Optional value is a set with at most one element ({} is None).    *)
(*  - A datetime is a number of hours; a date is a record [y, m, d].       *)
(*  - A dict is a function whose DOMAIN is its set of keys.                *)
(***************************************************************************)
EXTENDS Integers, Sequences, FiniteSets, TLC

VARIABLES
    now,                \* the reading of datetime.now(), in hours
    deals,              \* DealTracker.deals: key -> stored dict
    price_history,      \* DealTracker.price_history: route key -> series
    baselines,          \* DealTracker.baselines: route key -> price
    deals_file,         \* data/deals.json
    history_file,       \* data/price_history.json
    baseline_file,      \* data/baseline_prices.json
    alert_history,      \* AlertSystem.alert_history: key -> record
    alert_history_file, \* data/alert_history.json
    quiet_start,        \* AlertSystem.quiet_start (hour of the day)
    quiet_end,          \* AlertSystem.quiet_end (hour of the day)
    email_configured,   \* sender, recipient and password are all set
    packages,           \* the TripPackage objects handed to the calculator
    matrix,             \* the last result of compare_options ({} if none)
    ret,                \* the last call: operation, arguments and result
    lastPut,            \* history: identity tuple -> offer of the latest put
    appended,           \* history: route key -> every observation appended
    nputs,              \* history: number of add_deal calls so far
    sends,              \* history: key -> number of successful sends
    file_state,         \* file name -> "ok", "malformed" or "unreadable"
    warned,             \* the files the last start logged a warning about
    tracker_up,         \* a DealTracker exists: its process lives and its
                        \* constructor returned
    config,             \* ValueCalculator.config: the cents-per-point tables
    offer               \* the FlightDeal or HotelDeal object handed to the
                        \* calculator ({} if none)

vars == << now, deals, price_history, baselines, deals_file, history_file,
           baseline_file, alert_history, alert_history_file, quiet_start,
           quiet_end, email_configured, packages, matrix, ret, lastPut,
           appended, nputs, sends, file_state, warned, tracker_up, config,
           offer >>

storeVars == << deals, price_history, baselines, deals_file, history_file,
                baseline_file, lastPut, appended, nputs >>

alertVars == << alert_history, alert_history_file, sends >>

configVars == << quiet_start, quiet_end, email_configured, config >>

calcVars == << packages, matrix, offer >>

diskVars == << file_state, warned,
                        tracker_up >>

----------------------------------------------------------------------------
(* Bounds of the model *)

MaxPuts == 3          \* add_deal calls in the store specification
MaxEvictPuts == 102   \* add_deal calls in the eviction specification
MaxSends == 2         \* successful deliveries in the alert specification
MaxPackages == 3      \* packages handed to compare_options

----------------------------------------------------------------------------
(* Small helpers *)

None == {}

Some(x) == {x}

IsNone(o) == o = {}

TheValue(o) == CHOOSE x \in o : TRUE

Min(a, b) == IF a <= b THEN a ELSE b

Max(a, b) == IF a >= b THEN a ELSE b

\* d[k] = v added to (or replaced in) the dict d
DictSet(d, k, v) == (k :> v) @@ d

\* del d[k]
DictDel(d, k) == [x \in (DOMAIN d) \ {k} |-> d[x]]

\* d.get(k, default)
DictGet(d, k, default) == IF k \in DOMAIN d THEN d[k] ELSE default

EmptyDict == << >>

\* seq[-n:]
LastN(seq, n) ==
    IF Len(seq) <= n THEN seq ELSE SubSeq(seq, Len(seq) - n + 1, Len(seq))

\* seq[:n]
FirstN(seq, n) == SubSeq(seq, 1, Min(n, Len(seq)))

----------------------------------------------------------------------------
(* Enumerations of app/models.py and their .value strings *)

DealStatus == {"EXCELLENT", "GOOD", "ACCEPTABLE", "POOR", "EXPIRED"}

StatusValue(s) ==
    CASE s = "EXCELLENT"  -> "excellent"
      [] s = "GOOD"       -> "good"
      [] s = "ACCEPTABLE" -> "acceptable"
      [] s = "POOR"       -> "poor"
      [] s = "EXPIRED"    -> "expired"

DealType == {"FLIGHT_CASH", "FLIGHT_AWARD", "HOTEL_CASH", "HOTEL_POINTS",
             "ALL_INCLUSIVE", "PACKAGE"}

DealTypeValue(t) ==
    CASE t = "FLIGHT_CASH"   -> <<"flight", "_", "cash">>
      [] t = "FLIGHT_AWARD"  -> <<"flight", "_", "award">>
      [] t = "HOTEL_CASH"    -> <<"hotel", "_", "cash">>
      [] t = "HOTEL_POINTS"  -> <<"hotel", "_", "points">>
      [] t = "ALL_INCLUSIVE" -> <<"all", "_", "inclusive">>
      [] t = "PACKAGE"       -> <<"package">>

----------------------------------------------------------------------------
(* Dates and times as Python formats them *)

TwoDigits ==
    << "01", "02", "03", "04", "05", "06", "07", "08", "09", "10",
       "11", "12", "13", "14", "15", "16", "17", "18", "19", "20",
       "21", "22", "23", "24", "25", "26", "27", "28", "29", "30", "31" >>

FourDigits(y) ==
    CASE y = 2025 -> "2025"
      [] y = 2026 -> "2026"
      [] y = 2027 -> "2027"

\* date.isoformat() and str(date): YYYY-MM-DD
DateIso(dt) == << FourDigits(dt.y), "-", TwoDigits[dt.m], "-", TwoDigits[dt.d] >>

\* date.strftime('%Y-%m')
DateYearMonth(dt) == << FourDigits(dt.y), "-", TwoDigits[dt.m] >>

\* datetime.isoformat(): the text of an instant
IsoFormat(t) == [iso |-> t]

\* datetime.fromisoformat()
FromIsoFormat(s) == s.iso

\* timedelta.days of (later - earlier): whole days, rounded down
TimedeltaDays(later, earlier) == (later - earlier) \div 24

\* datetime.now().time(): the hour of the day
TimeOfDay(t) == t % 24

----------------------------------------------------------------------------
(* The clock: datetime.now() never goes back *)

Tick(t) ==
    /\ t > now
    /\ now' = t
    /\ ret' = [op |-> "tick"]
    /\ UNCHANGED << storeVars, alertVars, configVars, calcVars, diskVars >>

----------------------------------------------------------------------------
(* app/models.py: to_dict of the three kinds of deal object.  A deal     *)
(* object carries kind, the class it is an instance of.                   *)

FlightDeal_to_dict(deal) ==
    [ origin         |-> deal.origin,
      destination    |-> deal.destination,
      departure_date |-> DateIso(deal.departure_date),
      return_date    |-> DateIso(deal.return_date),
      deal_type      |-> DealTypeValue(deal.deal_type),
      price_cash     |-> deal.price_cash,
      price_points   |-> deal.price_points,
      taxes_fees     |-> deal.taxes_fees,
      airline        |-> deal.airline,
      stops          |-> deal.stops,
      source         |-> deal.source,
      found_at       |-> IsoFormat(deal.found_at),
      status         |-> StatusValue(deal.status) ]

HotelDeal_to_dict(deal) ==
    [ destination          |-> deal.destination,
      property_name        |-> deal.property_name,
      check_in             |-> DateIso(deal.check_in),
      check_out            |-> DateIso(deal.check_out),
      deal_type            |-> DealTypeValue(deal.deal_type),
      price_per_night_cash |-> deal.price_per_night_cash,
      total_price_cash     |-> deal.total_price_cash,
      total_price_points   |-> deal.total_price_points,
      resort_fees          |-> deal.resort_fees,
      is_all_inclusive     |-> deal.is_all_inclusive,
      source               |-> deal.source,
      found_at             |-> IsoFormat(deal.found_at),
      status               |-> StatusValue(deal.status) ]

TripPackage_to_dict(deal) ==
    [ destination     |-> deal.destination,
      departure_date  |-> DateIso(deal.departure_date),
      return_date     |-> DateIso(deal.return_date),
      flight          |-> IF IsNone(deal.flight) THEN None
                          ELSE Some(FlightDeal_to_dict(TheValue(deal.flight))),
      hotel           |-> IF IsNone(deal.hotel) THEN None
                          ELSE Some(HotelDeal_to_dict(TheValue(deal.hotel))),
      total_cash_cost |-> deal.total_cash_cost,
      savings_pct     |-> deal.savings_pct,
      status          |-> StatusValue(deal.status) ]

to_dict(deal) ==
    CASE deal.kind = "flight"  -> FlightDeal_to_dict(deal)
      [] deal.kind = "hotel"   -> HotelDeal_to_dict(deal)
      [] deal.kind = "package" -> TripPackage_to_dict(deal)

----------------------------------------------------------------------------
(* app/tracker.py: DealTracker *)

\* the files of the data directory
Files == {"deals", "price_history", "baseline_prices", "alert_history"}

\* open(path, 'w') followed by a complete json.dump: the files named hold
\* a complete document again
written(state, names) ==
    [ name \in Files |-> IF name \in names THEN "ok" ELSE state[name] ]

HistoryLimit == 100

Underscore == <<"_">>

Dash == <<"-">>

\* a key that also depends on the price of a flight
generate_deal_key_priced(deal) ==
    CASE deal.kind = "flight" ->
            <<"flight">> \o Underscore \o deal.origin \o Underscore
              \o deal.destination \o Underscore
              \o DateIso(deal.departure_date) \o Underscore
              \o deal.airline \o Underscore \o DealTypeValue(deal.deal_type)
              \o (IF deal.price_cash = Some(100) THEN <<"100">> ELSE << >>)
      [] deal.kind = "hotel" ->
            <<"hotel">> \o Underscore \o deal.property_name \o Underscore
              \o DateIso(deal.check_in) \o Underscore
              \o DealTypeValue(deal.deal_type)
      [] deal.kind = "package" ->
            <<"package">> \o Underscore \o deal.destination \o Underscore
              \o DateIso(deal.departure_date)

\* f"flight_{origin}_{destination}_{departure_date}_{airline}_{deal_type.value}"
\* f"hotel_{property_name}_{check_in}_{deal_type.value}"
\* f"package_{destination}_{departure_date}"
generate_deal_key(deal) ==
    CASE deal.kind = "flight" ->
            <<"flight">> \o Underscore \o deal.origin \o Underscore
              \o deal.destination \o Underscore
              \o DateIso(deal.departure_date) \o Underscore
              \o deal.airline \o Underscore \o DealTypeValue(deal.deal_type)
      [] deal.kind = "hotel" ->
            <<"hotel">> \o Underscore \o deal.property_name \o Underscore
              \o DateIso(deal.check_in) \o Underscore
              \o DealTypeValue(deal.deal_type)
      [] deal.kind = "package" ->
            <<"package">> \o Underscore \o deal.destination \o Underscore
              \o DateIso(deal.departure_date)

\* f"{origin}-{destination}-{departure_date.strftime('%Y-%m')}"
generate_route_key(origin, destination, departure_date) ==
    origin \o Dash \o destination \o Dash \o DateYearMonth(departure_date)

\* f"hotel-{property_name}-{check_in.strftime('%Y-%m')}"
hotel_history_key(deal) ==
    <<"hotel">> \o Dash \o deal.property_name \o Dash
      \o DateYearMonth(deal.check_in)

\* `x if x else 0` and `x or 0` on an Optional number
OrZero(o) == IF IsNone(o) THEN 0 ELSE TheValue(o)

\* the series a deal is observed on and the price observed; kinds other
\* than flight and hotel have none
history_key(deal) ==
    CASE deal.kind = "flight" -> Some(generate_route_key(deal.origin,
                                     deal.destination, deal.departure_date))
      [] deal.kind = "hotel"  -> Some(hotel_history_key(deal))
      [] OTHER                -> None

history_price(deal) ==
    CASE deal.kind = "flight" -> OrZero(deal.price_cash)
      [] deal.kind = "hotel"  -> OrZero(deal.price_per_night_cash)
      [] OTHER                -> 0

\* a test that lets a price of 0 through
records_price_any(deal) == ~IsNone(history_key(deal)) /\ history_price(deal) >= 0

\* whether _update_price_history reaches its append (and its save)
records_price(deal) == ~IsNone(history_key(deal)) /\ history_price(deal) > 0

\* prices[:100], which keeps the oldest observations
truncate_prices_oldest(prices) == FirstN(prices, HistoryLimit)

\* prices[-100:]
truncate_prices(prices) == LastN(prices, HistoryLimit)

\* the price history after _update_price_history(deal) at time t
update_price_history(history, deal, t) ==
    IF ~records_price(deal) THEN history
    ELSE LET key  == TheValue(history_key(deal))
             old  == IF key \in DOMAIN history THEN history[key].prices
                     ELSE << >>
             obs  == [timestamp |-> IsoFormat(t), price |-> history_price(deal)]
         IN DictSet(history, key,
                    [route_key |-> key,
                     prices    |-> truncate_prices(Append(old, obs))])

\* the identity a deal is meant to be stored under
Identity(deal) ==
    CASE deal.kind = "flight" ->
            [kind |-> "flight", origin |-> deal.origin,
             destination |-> deal.destination,
             departure_date |-> deal.departure_date,
             airline |-> deal.airline, deal_type |-> deal.deal_type]
      [] deal.kind = "hotel" ->
            [kind |-> "hotel", property_name |-> deal.property_name,
             check_in |-> deal.check_in, deal_type |-> deal.deal_type]
      [] deal.kind = "package" ->
            [kind |-> "package", destination |-> deal.destination,
             departure_date |-> deal.departure_date]

\* the dict add_deal stores for a deal at time t
deal_record(deal, t) ==
    ("_key" :> generate_deal_key(deal)) @@ ("_updated_at" :> IsoFormat(t))
      @@ to_dict(deal)

add_deal(deal) ==
    LET key       == generate_deal_key(deal)
        deal_data == deal_record(deal, now)
        changed   == /\ key \in DOMAIN deals
                     /\ DictGet(deal_data, "price_cash", None)
                          # DictGet(deals[key], "price_cash", None)
        new_deals == DictSet(deals, key, deal_data)
        new_hist  == update_price_history(price_history, deal, now)
    IN  /\ deals' = new_deals
        /\ deals_file' = new_deals
        /\ price_history' = new_hist
        /\ history_file' = IF records_price(deal) THEN new_hist
                           ELSE history_file
        /\ lastPut' = DictSet(lastPut, Identity(deal), deal)
        /\ appended' =
             IF records_price(deal)
             THEN LET rk == TheValue(history_key(deal))
                  IN DictSet(appended, rk,
                        Append(DictGet(appended, rk, << >>),
                               [timestamp |-> IsoFormat(now),
                                price |-> history_price(deal)]))
             ELSE appended
        /\ nputs' = nputs + 1
        /\ ret' = [op |-> "add_deal", value |-> key,
                   replaced |-> key \in DOMAIN deals,
                   logged |-> IF changed THEN "Price change" ELSE ""]
        /\ file_state' = written(file_state,
                                 IF records_price(deal)
                                 THEN {"deals", "price_history"}
                                 ELSE {"deals"})
        /\ UNCHANGED << now, baselines, baseline_file, alertVars,
                        configVars, calcVars, warned,
                        tracker_up >>

remove_deal(key) ==
    /\ IF key \in DOMAIN deals
       THEN /\ deals' = DictDel(deals, key)
            /\ deals_file' = DictDel(deals, key)
            /\ file_state' = written(file_state, {"deals"})
       ELSE UNCHANGED << deals, deals_file, file_state >>
    /\ lastPut' = [id \in {i \in DOMAIN lastPut :
                              generate_deal_key(lastPut[i]) # key}
                     |-> lastPut[id]]
    /\ ret' = [op |-> "remove_deal"]
    /\ UNCHANGED << now, price_history, history_file, baselines,
                    baseline_file, appended, nputs, alertVars, configVars,
                    calcVars, warned,
                        tracker_up >>

\* self.deals.get(key)
get_deal(key) == IF key \in DOMAIN deals THEN Some(deals[key]) ELSE None

\* a listing that ignores the filter
get_all_deals_unfiltered(status_filter) == { deals[key] : key \in DOMAIN deals }

\* the records get_all_deals returns (each carries its own _key, so the
\* list has no two equal entries); status_filter is an Optional DealStatus
get_all_deals(status_filter) ==
    IF IsNone(status_filter) THEN { deals[key] : key \in DOMAIN deals }
    ELSE { deals[key] : key \in
             { k \in DOMAIN deals :
                 DictGet(deals[k], "status", "")
                    = StatusValue(TheValue(status_filter)) } }

GetDeal(key) ==
    /\ ret' = [op |-> "get_deal", key |-> key, value |-> get_deal(key)]
    /\ UNCHANGED << now, storeVars, alertVars, configVars, calcVars, diskVars >>

GetAllDeals(status_filter) ==
    /\ ret' = [op |-> "get_all_deals", status_filter |-> status_filter,
               value |-> get_all_deals(status_filter)]
    /\ UNCHANGED << now, storeVars, alertVars, configVars, calcVars, diskVars >>

\* the keys expire_old_deals(days) marks at time t
expired_keys(days, t) ==
    { key \in DOMAIN deals :
        /\ "found_at" \in DOMAIN deals[key]
        /\ TimedeltaDays(t, FromIsoFormat(deals[key]["found_at"])) > days }

\* an expiry that marks the records in memory and does not save them
expire_old_deals_unsaved(days) ==
    LET marked    == expired_keys(days, now)
        new_deals == [key \in DOMAIN deals |->
                        IF key \in marked
                        THEN DictSet(deals[key], "status",
                                     StatusValue("EXPIRED"))
                        ELSE deals[key]]
    IN  /\ deals' = new_deals
        /\ ret' = [op |-> "expire_old_deals", days |-> days]
        /\ UNCHANGED << now, deals_file, price_history, history_file,
                        baselines, baseline_file, lastPut, appended, nputs,
                        alertVars, configVars, calcVars, diskVars >>

expire_old_deals(days) ==
    LET marked    == expired_keys(days, now)
        new_deals == [key \in DOMAIN deals |->
                        IF key \in marked
                        THEN DictSet(deals[key], "status",
                                     StatusValue("EXPIRED"))
                        ELSE deals[key]]
    IN  /\ deals' = new_deals
        /\ deals_file' = IF marked # {} THEN new_deals ELSE deals_file
        /\ file_state' = IF marked # {} THEN written(file_state, {"deals"})
                         ELSE file_state
        /\ ret' = [op |-> "expire_old_deals", days |-> days]
        /\ UNCHANGED << now, price_history, history_file, baselines,
                        baseline_file, lastPut, appended, nputs, alertVars,
                        configVars, calcVars, warned,
                        tracker_up >>

\* f"{origin}-{destination}-{departure_month}"
baseline_key(origin, destination, departure_month) ==
    origin \o Dash \o destination \o Dash \o departure_month

\* DealTracker.get_baseline_price(origin, destination, departure_month):
\* self.baselines.get(key)
get_baseline_price(origin, destination, departure_month) ==
    LET key == baseline_key(origin, destination, departure_month)
    IN  IF key \in DOMAIN baselines THEN Some(baselines[key]) ELSE None

\* a call of get_baseline_price
GetBaselinePrice(origin, destination, departure_month) ==
    /\ ret' = [ op |-> "get_baseline_price", origin |-> origin,
                destination |-> destination, month |-> departure_month,
                value |-> get_baseline_price(origin, destination,
                                             departure_month) ]
    /\ UNCHANGED << now, storeVars, alertVars, configVars, calcVars, diskVars >>

set_baseline_price(origin, destination, departure_month, price) ==
    LET key == baseline_key(origin, destination, departure_month)
    IN  /\ baselines' = DictSet(baselines, key, price)
        /\ baseline_file' = DictSet(baselines, key, price)
        /\ file_state' = written(file_state, {"baseline_prices"})
        /\ ret' = [op |-> "set_baseline_price"]
        /\ UNCHANGED << now, deals, deals_file, price_history, history_file,
                        lastPut, appended, nputs, alertVars, configVars,
                        calcVars, warned,
                        tracker_up >>

\* what _load_json returns for a file that exists: the document, or the
\* default when json.load raises JSONDecodeError
load_json(name, content, default) ==
    IF file_state[name] = "malformed" THEN default ELSE content

\* _load_json catches JSONDecodeError only: a file that cannot be read or
\* decoded as text raises out of the constructor
load_raises(name) == file_state[name] = "unreadable"

\* logger.warning("Failed to parse ...")
load_warns(name) == file_state[name] = "malformed"

\* the files DealTracker.__init__ gets to, in its order, before one raises
tracker_files_loaded ==
    IF load_raises("deals") THEN {}
    ELSE IF load_raises("price_history") THEN {"deals"}
    ELSE IF load_raises("baseline_prices") THEN {"deals", "price_history"}
    ELSE {"deals", "price_history", "baseline_prices"}

tracker_load_fails ==
    \E name \in {"deals", "price_history", "baseline_prices"} : load_raises(name)

\* DealTracker(data_dir) in a new process: the three collections are read
\* from the data directory; when a load raises there is no tracker
RestartTracker ==
    /\ IF tracker_load_fails
       THEN /\ deals' = EmptyDict
            /\ price_history' = EmptyDict
            /\ baselines' = EmptyDict
       ELSE /\ deals' = load_json("deals", deals_file, EmptyDict)
            /\ price_history' = load_json("price_history", history_file, EmptyDict)
            /\ baselines' = load_json("baseline_prices", baseline_file, EmptyDict)
    /\ warned' = (warned \ {"deals", "price_history", "baseline_prices"})
                   \cup { name \in tracker_files_loaded : load_warns(name) }
    /\ tracker_up' = ~tracker_load_fails
    /\ ret' = [op |-> "restart", raised |-> tracker_load_fails]
    /\ UNCHANGED << now, deals_file, history_file, baseline_file, lastPut,
                    appended, nputs, alertVars, configVars, calcVars,
                    file_state >>

\* the process dies inside add_deal, in or around a _save_json: before the
\* file is opened, after open(path, 'w') has emptied it and before the
\* document is complete, or after the save of the deals (in which case the
\* save of the price history may be the one that is cut short)
CrashPoints == {"before", "deals_torn", "deals_saved", "history_torn"}

add_deal_crash(deal, point) ==
    LET key       == generate_deal_key(deal)
        new_deals == DictSet(deals, key, deal_record(deal, now))
    IN  /\ point = "history_torn" => records_price(deal)
        /\ deals_file' = CASE point = "before"     -> deals_file
                           [] point = "deals_torn" -> EmptyDict
                           [] OTHER                -> new_deals
        /\ history_file' = IF point = "history_torn" THEN EmptyDict
                           ELSE history_file
        /\ file_state' =
             CASE point = "before"       -> file_state
               [] point = "deals_torn"   ->
                    [file_state EXCEPT !["deals"] = "malformed"]
               [] point = "deals_saved"  -> written(file_state, {"deals"})
               [] point = "history_torn" ->
                    [written(file_state, {"deals"})
                        EXCEPT !["price_history"] = "malformed"]
        /\ deals' = EmptyDict
        /\ price_history' = EmptyDict
        /\ baselines' = EmptyDict
        /\ nputs' = nputs + 1
        /\ tracker_up' = FALSE
        /\ ret' = [op |-> "crash", point |-> point]
        /\ UNCHANGED << now, baseline_file, lastPut, appended, alertVars,
                        configVars, calcVars, warned >>

----------------------------------------------------------------------------
(* app/alerts.py: AlertSystem *)

ThrottleHours == 24

AlertStatuses == {"excellent", "good"}

\* str(deal) of a dict: its items in insertion order between braces
dict_str(deal) ==
    <<"{">>
      \o (IF "_key" \in DOMAIN deal
          THEN <<"'_key':">> \o deal["_key"] \o <<",">> ELSE << >>)
      \o (IF "status" \in DOMAIN deal
          THEN <<"'status':", deal["status"], ",">> ELSE << >>)
      \o (IF "destination" \in DOMAIN deal
          THEN <<"'destination':">> \o deal["destination"] ELSE << >>)
      \o <<"}">>

\* str(hash(text)): the decimal digits of the hash of the text
hash_str(text) == <<"hash">> \o text

\* deal.get('_key', str(deal)) in should_alert
should_alert_key(deal) ==
    IF "_key" \in DOMAIN deal THEN deal["_key"] ELSE dict_str(deal)

\* deal.get('_key', str(hash(str(deal)))) in alert_deal
alert_deal_key(deal) ==
    IF "_key" \in DOMAIN deal THEN deal["_key"] ELSE hash_str(dict_str(deal))

\* a window test that forgets the overnight case
is_quiet_hours_same_day(t) ==
    quiet_start <= TimeOfDay(t) /\ TimeOfDay(t) <= quiet_end

is_quiet_hours(t) ==
    IF quiet_start > quiet_end
    THEN TimeOfDay(t) >= quiet_start \/ TimeOfDay(t) <= quiet_end
    ELSE quiet_start <= TimeOfDay(t) /\ TimeOfDay(t) <= quiet_end

\* a recency test that still suppresses at exactly 24 hours
was_recently_alerted_inclusive(deal_key, hours, t) ==
    IF deal_key \notin DOMAIN alert_history THEN FALSE
    ELSE t - FromIsoFormat(alert_history[deal_key].last_alert) <= hours

was_recently_alerted(deal_key, hours, t) ==
    IF deal_key \notin DOMAIN alert_history THEN FALSE
    ELSE LET last_time == FromIsoFormat(alert_history[deal_key].last_alert)
             age_hours == t - last_time
         IN  age_hours < hours

\* a record that restarts the count at every send
record_alert_restart(history, deal_key, alert_type, t) ==
    DictSet(history, deal_key,
            [last_alert |-> IsoFormat(t), alert_type |-> alert_type,
             count |-> 1])

\* the alert history after _record_alert(deal_key, alert_type) at time t
record_alert(history, deal_key, alert_type, t) ==
    DictSet(history, deal_key,
            [last_alert |-> IsoFormat(t),
             alert_type |-> alert_type,
             count      |-> DictGet(history, deal_key, [count |-> 0]).count + 1])

\* a decision that lets quiet hours and the threshold stop a forced alert
should_alert_unforced(deal, force, ignore_quiet_hours) ==
    LET deal_key == should_alert_key(deal)
        status   == DictGet(deal, "status", "")
    IN  IF status \notin AlertStatuses
        THEN [ok |-> FALSE, reason |-> "below alert threshold"]
        ELSE IF ~ignore_quiet_hours /\ is_quiet_hours(now)
        THEN [ok |-> FALSE, reason |-> "Quiet hours - alert queued"]
        ELSE IF force
        THEN [ok |-> TRUE, reason |-> "Forced alert"]
        ELSE IF was_recently_alerted(deal_key, ThrottleHours, now)
        THEN [ok |-> FALSE, reason |-> "Already alerted in last 24 hours"]
        ELSE [ok |-> TRUE, reason |-> "Alert triggered"]

\* a decision whose threshold also lets acceptable deals through
should_alert_acceptable(deal, force, ignore_quiet_hours) ==
    LET deal_key == should_alert_key(deal)
        status   == DictGet(deal, "status", "")
    IN  IF force
        THEN [ok |-> TRUE, reason |-> "Forced alert"]
        ELSE IF status \notin (AlertStatuses \cup {"acceptable"})
        THEN [ok |-> FALSE, reason |-> "below alert threshold"]
        ELSE IF ~ignore_quiet_hours /\ is_quiet_hours(now)
        THEN [ok |-> FALSE, reason |-> "Quiet hours - alert queued"]
        ELSE IF was_recently_alerted(deal_key, ThrottleHours, now)
        THEN [ok |-> FALSE, reason |-> "Already alerted in last 24 hours"]
        ELSE [ok |-> TRUE, reason |-> "Alert triggered"]

\* the pair (should_alert, reason) returned at the current time
should_alert(deal, force, ignore_quiet_hours) ==
    LET deal_key == should_alert_key(deal)
        status   == DictGet(deal, "status", "")
    IN  IF force
        THEN [ok |-> TRUE, reason |-> "Forced alert"]
        ELSE IF status \notin AlertStatuses
        THEN [ok |-> FALSE, reason |-> "below alert threshold"]
        ELSE IF ~ignore_quiet_hours /\ is_quiet_hours(now)
        THEN [ok |-> FALSE, reason |-> "Quiet hours - alert queued"]
        ELSE IF was_recently_alerted(deal_key, ThrottleHours, now)
        THEN [ok |-> FALSE, reason |-> "Already alerted in last 24 hours"]
        ELSE [ok |-> TRUE, reason |-> "Alert triggered"]

\* a call of should_alert: nothing but the result changes
ShouldAlert(deal, force, ignore_quiet_hours) ==
    /\ ret' = [op |-> "should_alert", deal |-> deal, force |-> force,
               ignore_quiet_hours |-> ignore_quiet_hours,
               value |-> should_alert(deal, force, ignore_quiet_hours)]
    /\ UNCHANGED << now, storeVars, alertVars, configVars, calcVars, diskVars >>

\* the result of send_email_alert when the SMTP exchange succeeds
\* (transport_ok) or raises
send_email_alert(transport_ok) ==
    IF ~email_configured THEN FALSE ELSE transport_ok

RECURSIVE TotalCount(_)
\* the sum of the values of a dict of counters
TotalCount(counters) ==
    IF DOMAIN counters = {} THEN 0
    ELSE LET key == CHOOSE k \in DOMAIN counters : TRUE
         IN  counters[key] + TotalCount(DictDel(counters, key))

\* an alert_deal that records the alert before it knows the send worked
alert_deal_records_first(deal, force, transport_ok) ==
    LET deal_key == alert_deal_key(deal)
        decision == should_alert(deal, force, FALSE)
        status   == DictGet(deal, "status", "deal")
        success  == decision.ok /\ send_email_alert(transport_ok)
        recorded == record_alert(alert_history, deal_key, status, now)
    IN  /\ alert_history' = IF decision.ok THEN recorded ELSE alert_history
        /\ alert_history_file' = IF decision.ok THEN recorded
                                 ELSE alert_history_file
        /\ sends' = IF success
                    THEN DictSet(sends, deal_key,
                                 DictGet(sends, deal_key, 0) + 1)
                    ELSE sends
        /\ ret' = [op |-> "alert_deal", deal |-> deal, force |-> force,
                   decision |-> decision, value |-> success]
        /\ file_state' = IF success
                         THEN written(file_state, {"alert_history"})
                         ELSE file_state
        /\ UNCHANGED << now, storeVars, configVars, calcVars, warned,
                        tracker_up >>

alert_deal(deal, force, transport_ok) ==
    LET deal_key == alert_deal_key(deal)
        decision == should_alert(deal, force, FALSE)
        status   == DictGet(deal, "status", "deal")
        success  == decision.ok /\ send_email_alert(transport_ok)
        recorded == record_alert(alert_history, deal_key, status, now)
    IN  /\ alert_history' = IF success THEN recorded ELSE alert_history
        /\ alert_history_file' = IF success THEN recorded
                                 ELSE alert_history_file
        /\ sends' = IF success
                    THEN DictSet(sends, deal_key,
                                 DictGet(sends, deal_key, 0) + 1)
                    ELSE sends
        /\ ret' = [op |-> "alert_deal", deal |-> deal, force |-> force,
                   decision |-> decision, value |-> success]
        /\ file_state' = IF success
                         THEN written(file_state, {"alert_history"})
                         ELSE file_state
        /\ UNCHANGED << now, storeVars, configVars, calcVars, warned,
                        tracker_up >>

\* AlertSystem(...) in a new process: _load_alert_history returns {} for
\* a malformed file and logs nothing
RestartAlerts ==
    /\ alert_history' = IF load_raises("alert_history") THEN EmptyDict
                        ELSE load_json("alert_history", alert_history_file,
                                       EmptyDict)
    /\ warned' = warned \ {"alert_history"}
    /\ ret' = [op |-> "restart_alerts", raised |-> load_raises("alert_history")]
    /\ UNCHANGED << now, storeVars, alert_history_file, sends, configVars,
                    calcVars, file_state, tracker_up >>

----------------------------------------------------------------------------
(* Numbers: a float that is the quotient of two integers is kept as the  *)
(* fraction num/den with den > 0                                          *)

Frac(n, d) == [num |-> n, den |-> d]

FracLE(a, b) == a.num * b.den <= b.num * a.den

FracLT(a, b) == a.num * b.den < b.num * a.den

FracNeg(a) == [num |-> 0 - a.num, den |-> a.den]

FracZero == Frac(0, 1)

\* days in the months of a year that is not a leap year
DaysInMonth == << 31, 28, 31, 30, 31, 30, 31, 31, 30, 31, 30, 31 >>

RECURSIVE DaysBeforeMonth(_)
DaysBeforeMonth(m) ==
    IF m = 1 THEN 0 ELSE DaysInMonth[m - 1] + DaysBeforeMonth(m - 1)

\* date.toordinal(), counted from the start of 2025
DateOrdinal(dt) == (dt.y - 2025) * 365 + DaysBeforeMonth(dt.m) + dt.d

\* (later - earlier).days of two dates
DaysBetween(later, earlier) == DateOrdinal(later) - DateOrdinal(earlier)

----------------------------------------------------------------------------
(* app/calculator.py: ValueConfig defaults and ValueCalculator *)

FamilySize == 4

MaxBudget == 12000

TargetBudget == 10000

\* a calculate_totals that adds to the totals of the last call instead of
\* starting from 0
calculate_totals_accumulating(package, family_size) ==
    LET flight_cash ==
            IF IsNone(package.flight) THEN 0
            ELSE OrZero(TheValue(package.flight).price_cash)
                   + TheValue(package.flight).taxes_fees
        flight_points ==
            IF IsNone(package.flight) THEN 0
            ELSE OrZero(TheValue(package.flight).price_points) * family_size
        hotel_cash ==
            IF IsNone(package.hotel) THEN 0
            ELSE OrZero(TheValue(package.hotel).total_price_cash)
                   + TheValue(package.hotel).resort_fees
        hotel_points ==
            IF IsNone(package.hotel) THEN 0
            ELSE OrZero(TheValue(package.hotel).total_price_points)
        total    == package.total_cash_cost + flight_cash + hotel_cash
        num_days == DaysBetween(package.return_date, package.departure_date)
    IN  [ package EXCEPT
            !.total_cash_cost = total,
            !.total_points_used = flight_points + hotel_points,
            !.cost_per_person = Frac(total, family_size),
            !.cost_per_person_per_day =
                IF num_days > 0 THEN Frac(total, family_size * num_days)
                ELSE FracZero ]

\* TripPackage.calculate_totals(family_size)
calculate_totals(package, family_size) ==
    LET flight_cash ==
            IF IsNone(package.flight) THEN 0
            ELSE OrZero(TheValue(package.flight).price_cash)
                   + TheValue(package.flight).taxes_fees
        flight_points ==
            IF IsNone(package.flight) THEN 0
            ELSE OrZero(TheValue(package.flight).price_points) * family_size
        hotel_cash ==
            IF IsNone(package.hotel) THEN 0
            ELSE OrZero(TheValue(package.hotel).total_price_cash)
                   + TheValue(package.hotel).resort_fees
        hotel_points ==
            IF IsNone(package.hotel) THEN 0
            ELSE OrZero(TheValue(package.hotel).total_price_points)
        total    == flight_cash + hotel_cash
        num_days == DaysBetween(package.return_date, package.departure_date)
    IN  [ package EXCEPT
            !.total_cash_cost = total,
            !.total_points_used = flight_points + hotel_points,
            !.cost_per_person = Frac(total, family_size),
            !.cost_per_person_per_day =
                IF num_days > 0 THEN Frac(total, family_size * num_days)
                ELSE FracZero ]

\* the statuses of the components that are present
component_statuses(package) ==
    (IF IsNone(package.flight) THEN {} ELSE {TheValue(package.flight).status})
      \cup (IF IsNone(package.hotel) THEN {} ELSE {TheValue(package.hotel).status})

\* the if/elif chain over the component statuses
package_status(package) ==
    LET statuses == component_statuses(package)
    IN  IF "POOR" \in statuses THEN "POOR"
        ELSE IF "ACCEPTABLE" \in statuses THEN "ACCEPTABLE"
        ELSE IF "GOOD" \in statuses THEN "GOOD"
        ELSE IF "EXCELLENT" \in statuses THEN "EXCELLENT"
        ELSE package.status

generate_recommendation(package) ==
    [ headline |-> CASE package.status = "EXCELLENT"  -> "EXCELLENT DEAL"
                     [] package.status = "GOOD"       -> "Good value"
                     [] package.status = "ACCEPTABLE" -> "Meets baseline"
                     [] OTHER                         -> "Below value threshold",
      total    |-> package.total_cash_cost,
      points   |-> IF package.total_points_used > 0
                   THEN Some(package.total_points_used) ELSE None,
      savings  |-> IF FracLT(FracZero, package.savings_pct)
                   THEN Some(package.savings_pct) ELSE None,
      budget   |-> IF package.total_cash_cost > MaxBudget
                   THEN "OVER BUDGET CEILING"
                   ELSE IF package.total_cash_cost > TargetBudget
                   THEN "Above target budget"
                   ELSE "Within target budget" ]

generate_booking_steps(package) ==
    LET transfer ==
            IF ~IsNone(package.flight)
                 /\ TheValue(package.flight).deal_type = "FLIGHT_AWARD"
            THEN << [ action |-> "Transfer points",
                      points |-> OrZero(TheValue(package.flight).price_points)
                                   * FamilySize ] >>
            ELSE << >>
        book_flight ==
            IF ~IsNone(package.flight)
            THEN << [ action |-> "Book flight",
                      origin |-> TheValue(package.flight).origin,
                      destination |-> TheValue(package.flight).destination ] >>
            ELSE << >>
        book_hotel ==
            IF ~IsNone(package.hotel)
            THEN << [ action |-> "Book hotel",
                      property_name |-> TheValue(package.hotel).property_name ] >>
            ELSE << >>
        steps == transfer \o book_flight \o book_hotel
    IN  [ i \in 1..Len(steps) |-> ("step" :> i) @@ steps[i] ]

\* the package after evaluate_trip_package(package, baseline_total);
\* a baseline of None or 0 is no baseline
evaluate_trip_package(package, baseline_total) ==
    LET totalled == calculate_totals(package, FamilySize)
        graded   == [ totalled EXCEPT !.status = package_status(totalled) ]
        compared ==
            IF OrZero(baseline_total) # 0
            THEN [ graded EXCEPT
                     !.savings_vs_baseline =
                        TheValue(baseline_total) - graded.total_cash_cost,
                     !.savings_pct =
                        Frac((TheValue(baseline_total) - graded.total_cash_cost) * 100,
                             TheValue(baseline_total)) ]
            ELSE graded
        advised  == [ compared EXCEPT
                        !.recommendation = generate_recommendation(compared) ]
    IN  [ advised EXCEPT !.booking_steps = generate_booking_steps(advised) ]

\* status_order.get(p.status, 5)
status_order(status) ==
    CASE status = "EXCELLENT"  -> 0
      [] status = "GOOD"       -> 1
      [] status = "ACCEPTABLE" -> 2
      [] status = "POOR"       -> 3
      [] status = "EXPIRED"    -> 4
      [] OTHER                 -> 5

\* -p.savings_pct if p.savings_pct else 0
savings_key(package) ==
    IF package.savings_pct.num # 0 THEN FracNeg(package.savings_pct)
    ELSE FracZero

\* a key comparison that puts the smaller savings first
sort_key_le_ascending(a, b) ==
    \/ status_order(a.status) < status_order(b.status)
    \/ /\ status_order(a.status) = status_order(b.status)
       /\ FracLE(a.savings_pct, b.savings_pct)

\* key(a) <= key(b) for the tuples the sort compares
sort_key_le(a, b) ==
    \/ status_order(a.status) < status_order(b.status)
    \/ /\ status_order(a.status) = status_order(b.status)
       /\ FracLE(savings_key(a), savings_key(b))

\* one step of a stable sort: x goes behind every element whose key is
\* not greater than its own
insert_sorted(sorted, x) ==
    LET before == Cardinality({ i \in 1..Len(sorted) : sort_key_le(sorted[i], x) })
    IN  SubSeq(sorted, 1, before) \o << x >> \o SubSeq(sorted, before + 1, Len(sorted))

RECURSIVE sort_packages(_)
\* list.sort(key=...): ascending and stable
sort_packages(list) ==
    IF Len(list) = 0 THEN << >>
    ELSE insert_sorted(sort_packages(SubSeq(list, 1, Len(list) - 1)), list[Len(list)])

\* the entry of ranked_options for the package at rank i
ranked_option(pkg, i) ==
    [ rank           |-> i,
      destination    |-> pkg.destination,
      total_cost     |-> pkg.total_cash_cost,
      points_used    |-> pkg.total_points_used,
      status         |-> StatusValue(pkg.status),
      savings_pct    |-> pkg.savings_pct,
      pros           |->
          (IF pkg.status \in {"EXCELLENT", "GOOD"} THEN {"Strong value"} ELSE {})
            \cup (IF pkg.total_cash_cost <= TargetBudget THEN {"Within budget"} ELSE {})
            \cup (IF ~IsNone(pkg.flight) /\ TheValue(pkg.flight).stops = 0
                  THEN {"Nonstop flights"} ELSE {})
            \cup (IF ~IsNone(pkg.hotel) /\ TheValue(pkg.hotel).is_all_inclusive
                  THEN {"All-inclusive"} ELSE {}),
      cons           |->
          (IF pkg.total_cash_cost > MaxBudget THEN {"Over budget ceiling"} ELSE {})
            \cup (IF pkg.status = "POOR" THEN {"Below value threshold"} ELSE {})
            \cup (IF ~IsNone(pkg.flight) /\ TheValue(pkg.flight).stops > 1
                  THEN {"Multiple connections"} ELSE {}),
      recommendation |-> pkg.recommendation,
      booking_steps  |-> pkg.booking_steps ]

\* a lowest_cost that names the package of rank 1
lowest_cost_of_best(evaluated) ==
    evaluated[1]

\* min(evaluated, key=lambda p: p.total_cash_cost): the first of the
\* cheapest
lowest_cost(evaluated) ==
    LET i == CHOOSE i \in 1..Len(evaluated) :
                /\ \A j \in 1..Len(evaluated) :
                     evaluated[i].total_cash_cost <= evaluated[j].total_cash_cost
                /\ \A j \in 1..(i - 1) :
                     evaluated[j].total_cash_cost > evaluated[i].total_cash_cost
    IN  evaluated[i]

\* the list of packages after every one was evaluated without a baseline
evaluate_all(list) ==
    [ i \in 1..Len(list) |-> evaluate_trip_package(list[i], None) ]

\* a compare_options without the test for an empty list
comparison_matrix_unguarded(list) ==
    IF Len(list) = 0
    THEN [ ranked_options |-> << >>, best_value |-> None,
           lowest_cost |-> None, best_experience |-> None ]
    ELSE LET evaluated == sort_packages(evaluate_all(list))
         IN  [ ranked_options  |-> [ i \in 1..Len(evaluated) |->
                                       ranked_option(evaluated[i], i) ],
               best_value      |-> Some(evaluated[1].destination),
               lowest_cost     |-> Some(lowest_cost(evaluated).destination),
               best_experience |-> None ]

\* the dict compare_options returns for a list of packages
comparison_matrix(list) ==
    IF Len(list) = 0 THEN [ error |-> "No packages to compare" ]
    ELSE LET evaluated == sort_packages(evaluate_all(list))
         IN  [ ranked_options  |-> [ i \in 1..Len(evaluated) |->
                                       ranked_option(evaluated[i], i) ],
               best_value      |-> Some(evaluated[1].destination),
               lowest_cost     |-> Some(lowest_cost(evaluated).destination),
               best_experience |-> None ]

\* a call of evaluate_trip_package on the i-th package object
EvaluateTripPackage(i, baseline_total) ==
    /\ packages' = [ packages EXCEPT
                       ![i] = evaluate_trip_package(packages[i], baseline_total) ]
    /\ ret' = [ op |-> "evaluate_trip_package", index |-> i,
                status_before |-> packages[i].status ]
    /\ UNCHANGED << now, matrix, offer, storeVars, alertVars, configVars,
                    diskVars >>

\* a call of compare_options on the list of package objects, which it
\* evaluates in place
compare_options ==
    /\ packages' = evaluate_all(packages)
    /\ matrix' = Some(comparison_matrix(packages))
    /\ ret' = [ op |-> "compare_options" ]
    /\ UNCHANGED << now, offer, storeVars, alertVars, configVars, diskVars >>

----------------------------------------------------------------------------
(* app/calculator.py: the evaluation of one flight or hotel offer *)

\* the tables ValueCalculator is built with in app/mcp_server.py
ServerConfig ==
    [ target_cpp |-> ("delta_skymiles" :> Frac(15, 10)) @@ ("amex_mr" :> Frac(2, 1)),
      min_cpp    |-> ("delta_skymiles" :> Frac(1, 1)) @@ ("amex_mr" :> Frac(12, 10)) ]

\* a configuration file without cents-per-point tables: from_yaml reads
\* value_calc.get("target_cpp", {}) and value_calc.get("min_cpp", {})
BareConfig == [ target_cpp |-> EmptyDict, min_cpp |-> EmptyDict ]

FracMul(a, b) == Frac(a.num * b.num, a.den * b.den)

RECURSIVE GCD(_, _)
GCD(a, b) == IF b = 0 THEN a ELSE GCD(b, a % b)

\* the same number in lowest terms
Reduce(a) ==
    LET g == GCD(IF a.num < 0 THEN 0 - a.num ELSE a.num, a.den)
    IN  Frac(a.num \div g, a.den \div g)

\* n / d for a divisor that is not 0, with a positive denominator
FracDiv(n, d) == IF d > 0 THEN Frac(n, d) ELSE Frac(0 - n, 0 - d)

\* round(n / d) for d > 0: the nearest integer, a tie to the even one
RoundHalfEven(n, d) ==
    LET q == n \div d
        r == n % d
    IN  IF 2 * r < d THEN q
        ELSE IF 2 * r > d THEN q + 1
        ELSE IF q % 2 = 0 THEN q ELSE q + 1

\* round(x, 2)
Round2(x) == Frac(RoundHalfEven(x.num * 100, x.den), 100)

\* an outcome of a call: the exception it raised, if any, and the object
Returned(deal) == [ raised |-> None, deal |-> deal ]

Raised(exception, deal) == [ raised |-> Some(exception), deal |-> deal ]

\* a Python number taken as a condition: None and 0 are false
Truthy(o) == ~IsNone(o) /\ TheValue(o) # 0

\* a Python string taken as a condition: None and "" are false
TruthyStr(o) == ~IsNone(o) /\ TheValue(o) # ""

\* str.lower() of the airline names the offers carry
LowerToken(t) ==
    CASE t = "Delta" -> "delta"
      [] t = "DELTA" -> "delta"
      [] t = "United" -> "united"
      [] OTHER -> t

lower(s) == [ i \in 1..Len(s) |-> LowerToken(s[i]) ]

\* a calculate_cpp that cuts the value off after 2 decimal places
calculate_cpp_truncating(cash_price, points_price, taxes_fees) ==
    IF points_price <= 0 THEN FracZero
    ELSE LET x == Reduce(Frac((cash_price.num - taxes_fees * cash_price.den) * 100,
                              points_price * cash_price.den))
         IN  Frac((x.num * 100) \div x.den, 100)

\* ValueCalculator.calculate_cpp(cash_price, points_price, taxes_fees)
calculate_cpp(cash_price, points_price, taxes_fees) ==
    IF points_price <= 0 THEN FracZero
    ELSE Round2(Reduce(Frac((cash_price.num - taxes_fees * cash_price.den) * 100,
                            points_price * cash_price.den)))

\* quick_cpp_calc(cash_price, points, taxes)
quick_cpp_calc(cash_price, points, taxes) ==
    IF points <= 0 THEN FracZero
    ELSE Round2(Reduce(Frac((cash_price - taxes) * 100, points)))

\* a call of calculate_cpp
CalculateCpp(cash_price, points_price, taxes_fees) ==
    /\ ret' = [ op |-> "calculate_cpp", cash_price |-> cash_price,
                points |-> points_price, taxes |-> taxes_fees,
                value |-> calculate_cpp(Frac(cash_price, 1), points_price,
                                        taxes_fees) ]
    /\ UNCHANGED << now, storeVars, alertVars, configVars, calcVars, diskVars >>

\* a call of quick_cpp_calc
QuickCppCalc(cash_price, points, taxes) ==
    /\ ret' = [ op |-> "quick_cpp_calc", cash_price |-> cash_price,
                points |-> points, taxes |-> taxes,
                value |-> quick_cpp_calc(cash_price, points, taxes) ]
    /\ UNCHANGED << now, storeVars, alertVars, configVars, calcVars, diskVars >>

\* region_bases and the default of 600
base_price(destination) ==
    CASE destination = <<"CUN">> -> 400
      [] destination = <<"PVR">> -> 450
      [] destination = <<"SJD">> -> 500
      [] destination = <<"MBJ">> -> 500
      [] destination = <<"PUJ">> -> 550
      [] destination = <<"AUA">> -> 600
      [] destination = <<"FCO">> -> 900
      [] destination = <<"BCN">> -> 850
      [] destination = <<"MAD">> -> 850
      [] destination = <<"ATH">> -> 950
      [] destination = <<"LIS">> -> 900
      [] destination = <<"MXP">> -> 900
      [] destination = <<"NAP">> -> 950
      [] OTHER -> 600

\* cabin_multipliers, in tenths
cabin_multiplier(cabin_class) ==
    CASE cabin_class = "ECONOMY" -> 10
      [] cabin_class = "PREMIUM_ECONOMY" -> 18
      [] cabin_class = "BUSINESS" -> 40
      [] cabin_class = "FIRST" -> 80
      [] OTHER -> 10

\* ValueCalculator._estimate_flight_cash_price(deal)
estimate_flight_cash_price(deal) ==
    Reduce(Frac(base_price(deal.destination)
                  * cabin_multiplier(deal.cabin_class)
                  * (IF deal.stops = 0 THEN 12 ELSE 10) * FamilySize,
                100))

\* target_cpp * 1.3 is a product of binary floating-point numbers: for the
\* target 1.5 it is 1.9500000000000002, above the 1.95 that round(cpp, 2)
\* returns; for the targets 2.0, 1.2, 1.0, 0.6, 0.5 and 0.4 it is the number
\* that round(cpp, 2) returns for their decimal product
product_above_decimal(target_cpp) == target_cpp.num * 10 = 15 * target_cpp.den

\* cpp_value >= target_cpp * 1.3
reaches_excellent(cpp_value, target_cpp) ==
    IF product_above_decimal(target_cpp)
    THEN FracLT(FracMul(target_cpp, Frac(13, 10)), cpp_value)
    ELSE FracLE(FracMul(target_cpp, Frac(13, 10)), cpp_value)

\* the status of a cents-per-point value against the two thresholds
cpp_status(cpp_value, target_cpp, min_cpp) ==
    IF reaches_excellent(cpp_value, target_cpp) THEN "EXCELLENT"
    ELSE IF FracLE(target_cpp, cpp_value) THEN "GOOD"
    ELSE IF FracLE(min_cpp, cpp_value) THEN "ACCEPTABLE"
    ELSE "POOR"

\* ValueCalculator._evaluate_flight_status(deal) with the tables of cfg:
\* the exception it raised, if any, and the status it returned
evaluate_flight_status(cfg, deal) ==
    IF deal.deal_type = "FLIGHT_AWARD"
    THEN LET currency == IF TruthyStr(deal.points_currency)
                         THEN TheValue(deal.points_currency)
                         ELSE "delta_skymiles"
             target_cpp == DictGet(cfg.target_cpp, currency, Frac(15, 10))
             min_cpp    == DictGet(cfg.min_cpp, currency, Frac(1, 1))
         IN  IF IsNone(deal.cpp_value)
             THEN [ raised |-> Some("TypeError"), status |-> deal.status ]
             ELSE [ raised |-> None,
                    status |-> cpp_status(TheValue(deal.cpp_value),
                                          target_cpp, min_cpp) ]
    ELSE LET estimated == estimate_flight_cash_price(deal)
             \* (estimated - price_cash) * 100 against pct * estimated
             discount_ge(pct) ==
                 (estimated.num - TheValue(deal.price_cash) * estimated.den) * 100
                    >= pct * estimated.num
         IN  IF IsNone(deal.price_cash)
             THEN [ raised |-> Some("TypeError"), status |-> deal.status ]
             ELSE [ raised |-> None,
                    status |-> IF discount_ge(30) THEN "EXCELLENT"
                               ELSE IF discount_ge(20) THEN "GOOD"
                               ELSE IF discount_ge(0) THEN "ACCEPTABLE"
                               ELSE "POOR" ]

\* ValueCalculator.evaluate_flight_deal(deal, baseline_cash_price)
evaluate_flight_deal(cfg, deal, baseline_cash_price) ==
    LET cash_equivalent ==
            IF Truthy(baseline_cash_price)
            THEN Frac(TheValue(baseline_cash_price), 1)
            ELSE estimate_flight_cash_price(deal)
        total_points == TheValue(deal.price_points) * FamilySize
        total_taxes  == deal.taxes_fees * FamilySize
        valued ==
            IF deal.deal_type = "FLIGHT_CASH"
            THEN [ deal EXCEPT
                     !.total_value = IF IsNone(deal.price_cash) THEN None
                                     ELSE Some(Frac(TheValue(deal.price_cash), 1)),
                     !.cpp_value = None ]
            ELSE IF deal.deal_type = "FLIGHT_AWARD"
            THEN [ deal EXCEPT
                     !.cpp_value = Some(calculate_cpp(cash_equivalent,
                                                      total_points, total_taxes)),
                     !.total_value = Some(cash_equivalent),
                     !.savings_vs_cash =
                        Some(Frac(cash_equivalent.num
                                    - total_taxes * cash_equivalent.den,
                                  cash_equivalent.den)) ]
            ELSE deal
        diamond == lower(deal.airline) = <<"delta">>
                     /\ deal.cabin_class = "ECONOMY"
        \* 0.40 * total_value * (1.5 - 1), written with no decimals
        upgrade_bonus ==
            RoundHalfEven(TheValue(valued.total_value).num,
                          TheValue(valued.total_value).den * 5)
        noted ==
            IF diamond
            THEN [ valued EXCEPT
                     !.notes = Append(@, [ note |-> "Diamond upgrade potential",
                                           upgrade_bonus |-> upgrade_bonus ]) ]
            ELSE valued
        graded == evaluate_flight_status(cfg, noted)
    IN  IF deal.deal_type = "FLIGHT_AWARD" /\ IsNone(deal.price_points)
        THEN Raised("TypeError", deal)
        ELSE IF diamond /\ IsNone(valued.total_value)
        THEN Raised("TypeError", valued)
        ELSE IF ~IsNone(graded.raised)
        THEN Raised(TheValue(graded.raised), noted)
        ELSE Returned([ noted EXCEPT !.status = graded.status ])

\* ValueCalculator.evaluate_hotel_deal(deal, baseline_cash_price)
evaluate_hotel_deal(cfg, deal, baseline_cash_price) ==
    LET nights == DaysBetween(deal.check_out, deal.check_in)
        total  == IF Truthy(deal.total_price_cash)
                  THEN TheValue(deal.total_price_cash)
                  ELSE TheValue(deal.price_per_night_cash) * nights
        per_person_per_night == FracDiv(total, nights * FamilySize)
        at_most(limit) == FracLE(per_person_per_night, Frac(limit, 1))
        cpp_value == calculate_cpp(Frac(TheValue(baseline_cash_price), 1),
                                   TheValue(deal.total_price_points),
                                   deal.resort_fees)
        currency == IF TruthyStr(deal.points_currency)
                    THEN TheValue(deal.points_currency)
                    ELSE "hilton"
        target_cpp == DictGet(cfg.target_cpp, currency, Frac(5, 10))
        min_cpp    == DictGet(cfg.min_cpp, currency, Frac(4, 10))
    IN  IF deal.deal_type \in { "HOTEL_CASH", "ALL_INCLUSIVE" }
        THEN IF ~deal.is_all_inclusive THEN Returned(deal)
             ELSE IF ~Truthy(deal.total_price_cash)
                       /\ IsNone(deal.price_per_night_cash)
             THEN Raised("TypeError", deal)
             ELSE IF nights * FamilySize = 0
             THEN Raised("ZeroDivisionError", deal)
             ELSE Returned([ deal EXCEPT
                    !.per_person_per_night = Some(per_person_per_night),
                    !.status = IF at_most(250) THEN "EXCELLENT"
                               ELSE IF at_most(350) THEN "GOOD"
                               ELSE IF at_most(450) THEN "ACCEPTABLE"
                               ELSE "POOR" ])
        ELSE IF deal.deal_type = "HOTEL_POINTS"
                  /\ Truthy(baseline_cash_price)
                  /\ Truthy(deal.total_price_points)
        THEN Returned([ deal EXCEPT
                          !.cpp_value = Some(cpp_value),
                          !.status = cpp_status(cpp_value, target_cpp, min_cpp) ])
        ELSE Returned(deal)

\* the notes one flight object collects are explored up to this many
MaxNotes == 2

\* a call of evaluate_flight_deal on the flight object
EvaluateFlightDeal(baseline_cash_price) ==
    /\ ~IsNone(offer)
    /\ TheValue(offer).kind = "flight"
    /\ Len(TheValue(offer).notes) < MaxNotes
    /\ LET outcome == evaluate_flight_deal(config, TheValue(offer),
                                           baseline_cash_price)
       IN  /\ offer' = Some(outcome.deal)
           /\ ret' = [ op |-> "evaluate_flight_deal",
                       baseline |-> baseline_cash_price,
                       raised |-> outcome.raised ]
    /\ UNCHANGED << now, packages, matrix, storeVars, alertVars, configVars,
                    diskVars >>

\* a call of evaluate_hotel_deal on the hotel object
EvaluateHotelDeal(baseline_cash_price) ==
    /\ ~IsNone(offer)
    /\ TheValue(offer).kind = "hotel"
    /\ LET outcome == evaluate_hotel_deal(config, TheValue(offer),
                                          baseline_cash_price)
       IN  /\ offer' = Some(outcome.deal)
           /\ ret' = [ op |-> "evaluate_hotel_deal",
                       baseline |-> baseline_cash_price,
                       raised |-> outcome.raised ]
    /\ UNCHANGED << now, packages, matrix, storeVars, alertVars, configVars,
                    diskVars >>

----------------------------------------------------------------------------
(* app/models.py: PriceHistory. Where a price has cents it is counted in  *)
(* hundredths                                                             *)

RECURSIVE SumPrices(_)
SumPrices(prices) ==
    IF Len(prices) = 0 THEN 0
    ELSE prices[1].price + SumPrices(SubSeq(prices, 2, Len(prices)))

\* PriceHistory.get_baseline()
get_baseline(prices) ==
    IF Len(prices) = 0 THEN FracZero
    ELSE Frac(SumPrices(FirstN(prices, 3)), Min(3, Len(prices)))

\* the floating-point value of (last - first) / first * 100 against the
\* exact one, for prices in hundredths: 1 if it is greater, -1 if it is
\* less, 0 if it is the same. From 10.5 to 11.55 it is 10.000000000000005
\* and from 10.5 to 9.45 it is -10.000000000000005; between whole prices a
\* change of a tenth is 10.0 or -10.0
change_error(first, last) ==
    IF first = 1050 /\ last = 1155 THEN 1
    ELSE IF first = 1050 /\ last = 945 THEN 0 - 1
    ELSE 0

\* PriceHistory.get_trend()
get_trend(prices) ==
    IF Len(prices) < 2 THEN "stable"
    ELSE LET recent == IF Len(prices) >= 3 THEN LastN(prices, 3) ELSE prices
             first  == recent[1].price
             last   == recent[Len(recent)].price
             \* change_pct - 10 and change_pct + 10, times first
             above  == (last - first) * 100 - 10 * first
             below  == (last - first) * 100 + 10 * first
         IN  IF first <= 0 THEN "stable"
             ELSE IF below < 0 \/ (below = 0 /\ change_error(first, last) < 0)
             THEN "dropping"
             ELSE IF above > 0 \/ (above = 0 /\ change_error(first, last) > 0)
             THEN "rising"
             ELSE "stable"

\* PriceHistory.add_price(price) at time t
add_price(prices, price, t) ==
    Append(prices, [timestamp |-> IsoFormat(t), price |-> price])

\* a call of add_price on the PriceHistory object of a route, which
\* price_history holds under its route_key
AddPrice(route_key, price) ==
    /\ price_history' =
         DictSet(price_history, route_key,
                 [ route_key |-> route_key,
                   prices |-> add_price(IF route_key \in DOMAIN price_history
                                        THEN price_history[route_key].prices
                                        ELSE << >>,
                                        price, now) ])
    /\ ret' = [ op |-> "add_price", price |-> price ]
    /\ UNCHANGED << now, deals, baselines, deals_file, history_file,
                    baseline_file, lastPut, appended, nputs, alertVars,
                    configVars, calcVars, diskVars >>

\* a call of get_trend on the PriceHistory object of a route
GetTrend(route_key) ==
    /\ route_key \in DOMAIN price_history
    /\ ret' = [ op |-> "get_trend",
                value |-> get_trend(price_history[route_key].prices) ]
    /\ UNCHANGED << now, storeVars, alertVars, configVars, calcVars, diskVars >>

\* a call of get_baseline on the PriceHistory object of a route
GetBaseline(route_key) ==
    /\ route_key \in DOMAIN price_history
    /\ ret' = [ op |-> "get_baseline",
                value |-> get_baseline(price_history[route_key].prices) ]
    /\ UNCHANGED << now, storeVars, alertVars, configVars, calcVars, diskVars >>

----------------------------------------------------------------------------
(* The deals, keys and instants the store is exercised with *)

MSP == <<"MSP">>

CUN == <<"CUN">>

Delta == <<"Delta">>

Riu == <<"Riu", " ", "Palace">>

Mar27 == [y |-> 2026, m |-> 3, d |-> 27]

Mar28 == [y |-> 2026, m |-> 3, d |-> 28]

Apr03 == [y |-> 2026, m |-> 4, d |-> 3]

Flight(departure_date, price_cash, found_at, status) ==
    [ kind |-> "flight", origin |-> MSP, destination |-> CUN,
      departure_date |-> departure_date, return_date |-> Apr03,
      deal_type |-> "FLIGHT_CASH", price_cash |-> price_cash,
      price_points |-> None, taxes_fees |-> 0, airline |-> Delta,
      stops |-> 0, source |-> "manual", found_at |-> found_at,
      status |-> status ]

Hotel(check_in, price_per_night_cash, found_at, status) ==
    [ kind |-> "hotel", destination |-> CUN, property_name |-> Riu,
      check_in |-> check_in, check_out |-> Apr03,
      deal_type |-> "ALL_INCLUSIVE",
      price_per_night_cash |-> price_per_night_cash,
      total_price_cash |-> None, total_price_points |-> None,
      resort_fees |-> 0, is_all_inclusive |-> TRUE, source |-> "manual",
      found_at |-> found_at, status |-> status ]

NoRecommendation == [ headline |-> "" ]

\* TripPackage(...): the fields after the components take their defaults
TripPackage(destination, departure_date, flight, hotel, status, savings_pct) ==
    [ kind |-> "package", destination |-> destination,
      departure_date |-> departure_date, return_date |-> Apr03,
      flight |-> flight, hotel |-> hotel, total_cash_cost |-> 0,
      total_points_used |-> 0, cost_per_person |-> FracZero,
      cost_per_person_per_day |-> FracZero, savings_vs_baseline |-> 0,
      savings_pct |-> Frac(savings_pct, 1), status |-> status,
      recommendation |-> NoRecommendation, booking_steps |-> << >> ]

Package(departure_date, status) ==
    TripPackage(CUN, departure_date, None, None, status, 0)

StoreFlights ==
    { Flight(Mar27, price, 0, "GOOD") : price \in {Some(100), Some(250)} }
      \cup { Flight(Mar28, price, 8, "EXCELLENT") : price \in {Some(100), Some(250)} }

StoreHotels == { Hotel(Mar27, price, 0, "EXCELLENT") : price \in {None, Some(300)} }

StorePackages == { Package(Mar27, "POOR") }

StoreOffers == StoreFlights \cup StoreHotels \cup StorePackages

StoreKeys == { generate_deal_key(deal) : deal \in StoreOffers } \cup { <<"absent">> }

StoreClock == {30}

ExpireDays == {0, 1}

BaselinePrices == {400, 500}

----------------------------------------------------------------------------
(* The store on its own: every operation of DealTracker, from an empty   *)
(* data directory                                                         *)

Init ==
    /\ now = 0
    /\ deals = EmptyDict
    /\ price_history = EmptyDict
    /\ baselines = EmptyDict
    /\ deals_file = EmptyDict
    /\ history_file = EmptyDict
    /\ baseline_file = EmptyDict
    /\ alert_history = EmptyDict
    /\ alert_history_file = EmptyDict
    /\ quiet_start = 22
    /\ quiet_end = 7
    /\ email_configured = FALSE
    /\ packages = << >>
    /\ matrix = None
    /\ ret = [op |-> "init"]
    /\ lastPut = EmptyDict
    /\ appended = EmptyDict
    /\ nputs = 0
    /\ sends = EmptyDict
    /\ file_state = [ name \in Files |-> "ok" ]
    /\ warned = {}
    /\ tracker_up = TRUE
    /\ config = ServerConfig
    /\ offer = None

Next ==
    \/ \E t \in StoreClock : Tick(t)
    \/ \E deal \in StoreOffers : nputs < MaxPuts /\ add_deal(deal)
    \/ \E key \in StoreKeys : remove_deal(key)
    \/ \E days \in ExpireDays : expire_old_deals(days)
    \/ \E price \in BaselinePrices :
         set_baseline_price(MSP, CUN, DateYearMonth(Mar27), price)

Spec == Init /\ [][Next]_vars

----------------------------------------------------------------------------
(* The store with its queries: deals are put, removed, expired, looked up *)
(* and listed                                                             *)

MaxQueryPuts == 2

\* a flight offered at a negative price
NegativeFlight == Flight(Mar28, Some(0 - 50), 8, "GOOD")

\* a hotel that carries a price for the stay and none per night
TotalOnlyHotel ==
    [ Hotel(Mar27, None, 8, "GOOD") EXCEPT !.total_price_cash = Some(5600) ]

QueryOffers ==
    { Flight(Mar27, Some(100), 0, "GOOD"),
      Flight(Mar27, Some(250), 0, "EXCELLENT"),
      NegativeFlight,
      Hotel(Mar27, Some(300), 8, "EXCELLENT"),
      TotalOnlyHotel,
      Package(Mar27, "POOR") }

QueryKeys == { generate_deal_key(deal) : deal \in QueryOffers } \cup { <<"absent">> }

QueryFilters == { None, Some("EXCELLENT"), Some("GOOD"), Some("EXPIRED") }

QueryClock == {30}

NextQuery ==
    \/ \E t \in QueryClock : Tick(t)
    \/ \E deal \in QueryOffers : nputs < MaxQueryPuts /\ add_deal(deal)
    \/ \E key \in QueryKeys : remove_deal(key)
    \/ \E days \in ExpireDays : expire_old_deals(days)
    \/ \E key \in QueryKeys : GetDeal(key)
    \/ \E status_filter \in QueryFilters : GetAllDeals(status_filter)

SpecQuery == Init /\ [][NextQuery]_vars

----------------------------------------------------------------------------
(* The store across processes: operations, deaths of the process inside  *)
(* a save, and new starts on the same data directory                      *)

MaxDurablePuts == 2

DurableOffers ==
    { Flight(Mar27, Some(100), 0, "GOOD"),
      Hotel(Mar27, Some(300), 0, "EXCELLENT"),
      Package(Mar27, "POOR") }

DurableKeys == { generate_deal_key(Flight(Mar27, Some(100), 0, "GOOD")) }

DurableClock == {30}

NextDurable ==
    \/ \E t \in DurableClock : Tick(t)
    \/ \E deal \in DurableOffers :
         tracker_up /\ nputs < MaxDurablePuts /\ add_deal(deal)
    \/ \E key \in DurableKeys : tracker_up /\ remove_deal(key)
    \/ tracker_up /\ expire_old_deals(0)
    \/ tracker_up /\ set_baseline_price(MSP, CUN, DateYearMonth(Mar27), 400)
    \/ \E deal \in DurableOffers, point \in CrashPoints :
         tracker_up /\ nputs < MaxDurablePuts /\ add_deal_crash(deal, point)
    \/ RestartTracker

SpecDurable == Init /\ [][NextDurable]_vars

----------------------------------------------------------------------------
(* One series filled past its limit: the same flight put again and again *)

EvictOffer == Flight(Mar27, Some(100), 0, "GOOD")

EvictSeries == generate_route_key(MSP, CUN, Mar27)

EvictClock == {30}

NextEvict ==
    \/ \E t \in EvictClock : Tick(t)
    \/ nputs < MaxEvictPuts /\ add_deal(EvictOffer)

SpecEvict == Init /\ [][NextEvict]_vars

----------------------------------------------------------------------------
(* C1: deduplication *)

\* the stored dict rec is a record of the identity id
HasIdentity(rec, id) ==
    CASE id.kind = "flight" ->
            /\ "airline" \in DOMAIN rec
            /\ rec.origin = id.origin
            /\ rec.destination = id.destination
            /\ rec.departure_date = DateIso(id.departure_date)
            /\ rec.airline = id.airline
            /\ rec.deal_type = DealTypeValue(id.deal_type)
      [] id.kind = "hotel" ->
            /\ "property_name" \in DOMAIN rec
            /\ rec.property_name = id.property_name
            /\ rec.check_in = DateIso(id.check_in)
            /\ rec.deal_type = DealTypeValue(id.deal_type)
      [] id.kind = "package" ->
            /\ "flight" \in DOMAIN rec
            /\ rec.destination = id.destination
            /\ rec.departure_date = DateIso(id.departure_date)

RecordsOf(id) == { key \in DOMAIN deals : HasIdentity(deals[key], id) }

\* the price a deal object carries
OfferPrice(deal) ==
    CASE deal.kind = "flight" -> deal.price_cash
      [] deal.kind = "hotel"  -> deal.price_per_night_cash
      [] OTHER                -> None

\* the price a stored dict carries
RecordPrice(rec) ==
    IF "price_cash" \in DOMAIN rec THEN rec.price_cash
    ELSE IF "price_per_night_cash" \in DOMAIN rec
         THEN rec.price_per_night_cash
         ELSE None

\* C1: the store holds exactly one record for every identity that was put
\* (and not removed since), no record for any other identity, and the
\* price of the record is the price of the latest put of that identity; so
\* two puts of flights that agree on (origin, destination, departure_date,
\* airline, kind) and differ in price leave one record, with the second
\* price.
C1_Deduplication ==
    /\ \A id \in DOMAIN lastPut :
         /\ Cardinality(RecordsOf(id)) = 1
         /\ \A key \in RecordsOf(id) :
              RecordPrice(deals[key]) = OfferPrice(lastPut[id])
    /\ Cardinality(DOMAIN deals) = Cardinality(DOMAIN lastPut)

\* a flight was put a second time under the same identity with another
\* price, and the store holds the one record
C1_Witness ==
    /\ ret.op = "add_deal"
    /\ ret.replaced
    /\ ret.logged = "Price change"
    /\ nputs = 2
    /\ Cardinality(DOMAIN deals) = 1
    /\ "airline" \in DOMAIN deals[ret.value]

----------------------------------------------------------------------------
(* C2: price-history eviction *)

\* C2: every series has at most 100 observations and is the most recent
\* part, in the order of appending, of everything that was appended to it;
\* once more than 100 were appended the oldest are gone, so after 101 puts
\* the series has exactly 100 entries and starts at the second observation.
C2_HistoryEviction ==
    /\ DOMAIN price_history = DOMAIN appended
    /\ \A key \in DOMAIN price_history :
         LET series == price_history[key].prices
             log    == appended[key]
         IN  /\ Len(series) <= HistoryLimit
             /\ Len(series) = Min(Len(log), HistoryLimit)
             /\ \A i \in 1..Len(series) :
                  series[i] = log[Len(log) - Len(series) + i]
             /\ Len(log) = HistoryLimit + 1 =>
                  /\ Len(series) = HistoryLimit
                  /\ series[1] = log[2]
                  /\ (\A j \in 2..Len(log) : log[j] # log[1]) =>
                       \A i \in 1..Len(series) : series[i] # log[1]

\* 101 observations were appended to one series; the first was made at
\* another time than the rest
C2_Witness ==
    /\ ret.op = "add_deal"
    /\ EvictSeries \in DOMAIN appended
    /\ Len(appended[EvictSeries]) = HistoryLimit + 1
    /\ Len(price_history[EvictSeries].prices) = HistoryLimit
    /\ \A j \in 2..(HistoryLimit + 1) :
         appended[EvictSeries][j] # appended[EvictSeries][1]

----------------------------------------------------------------------------
(* The alert system on its own, called with dicts of every shape *)

AlertOffer == Flight(Mar27, Some(100), 0, "GOOD")

FlightKey == generate_deal_key(AlertOffer)

HotelKey == generate_deal_key(Hotel(Mar27, Some(300), 0, "EXCELLENT"))

Destination == <<"CUN">>

\* the dicts handed to should_alert and alert_deal
AlertDeals ==
    { [ _key |-> FlightKey, status |-> "excellent", destination |-> Destination ],
      [ _key |-> FlightKey, status |-> "expired", destination |-> Destination ],
      [ _key |-> HotelKey, status |-> "good", destination |-> Destination ],
      [ status |-> "excellent", destination |-> Destination ] }

\* every shape of dict the decision is examined on
DealUniverse ==
    { [ _key |-> key, status |-> status ] :
        key \in {FlightKey, HotelKey},
        status \in {"excellent", "good", "acceptable", "poor", "expired", "", "deal"} }
      \cup { [ _key |-> key ] : key \in {FlightKey, HotelKey} }
      \cup { [ status |-> status, destination |-> Destination ] :
               status \in {"excellent", "good", "acceptable", "poor", "expired"} }
      \cup { [ destination |-> Destination ] }
      \cup AlertDeals

AlertClock == {8, 22, 31, 32}

QuietWindows == { <<22, 7>>, <<8, 22>> }

InitAlert ==
    /\ now = 0
    /\ deals = EmptyDict
    /\ price_history = EmptyDict
    /\ baselines = EmptyDict
    /\ deals_file = EmptyDict
    /\ history_file = EmptyDict
    /\ baseline_file = EmptyDict
    /\ alert_history = EmptyDict
    /\ alert_history_file = EmptyDict
    /\ \E window \in QuietWindows :
         quiet_start = window[1] /\ quiet_end = window[2]
    /\ email_configured \in BOOLEAN
    /\ packages = << >>
    /\ matrix = None
    /\ ret = [op |-> "init"]
    /\ lastPut = EmptyDict
    /\ appended = EmptyDict
    /\ nputs = 0
    /\ sends = EmptyDict
    /\ file_state = [ name \in Files |-> "ok" ]
    /\ warned = {}
    /\ tracker_up = TRUE
    /\ config = ServerConfig
    /\ offer = None

NextAlert ==
    \/ \E t \in AlertClock : Tick(t)
    \/ \E deal \in AlertDeals, force \in BOOLEAN, ignore \in BOOLEAN :
         ShouldAlert(deal, force, ignore)
    \/ \E deal \in AlertDeals, force \in BOOLEAN, transport_ok \in BOOLEAN :
         /\ transport_ok => TotalCount(sends) < MaxSends
         /\ alert_deal(deal, force, transport_ok)

SpecAlert == InitAlert /\ [][NextAlert]_vars

----------------------------------------------------------------------------
(* The store and the alert system together: a flight is stored, expires  *)
(* and is handed, as stored, to the alert system                          *)

SystemClock == {8, 32}

MaxSystemPuts == 1

NextSystem ==
    \/ \E t \in SystemClock : Tick(t)
    \/ nputs < MaxSystemPuts /\ add_deal(AlertOffer)
    \/ \E days \in ExpireDays : expire_old_deals(days)
    \/ \E key \in DOMAIN deals, force \in BOOLEAN, ignore \in BOOLEAN :
         ShouldAlert(deals[key], force, ignore)
    \/ \E key \in DOMAIN deals, force \in BOOLEAN, transport_ok \in BOOLEAN :
         /\ transport_ok => TotalCount(sends) < MaxSends
         /\ alert_deal(deals[key], force, transport_ok)

SpecSystem == InitAlert /\ [][NextSystem]_vars

----------------------------------------------------------------------------
(* C3 - C8: the alert policy *)

Recency == "Already alerted in last 24 hours"

QuietReason == "Quiet hours - alert queued"

\* the time of the last recorded alert of a key
LastAlert(key) == FromIsoFormat(alert_history[key].last_alert)

\* C3: when an alert is recorded for the key of a deal at time t, a
\* should_alert without force returns false at every time before t + 24
\* hours, whatever the other arguments; from t + 24 hours on the recency
\* check does not suppress it, and a call that nothing else stops is allowed.
C3_Throttle ==
    /\ \A deal \in DealUniverse, ignore \in BOOLEAN :
         LET key == should_alert_key(deal)
             res == should_alert(deal, FALSE, ignore)
         IN  key \in DOMAIN alert_history =>
               /\ now < LastAlert(key) + 24 => ~res.ok
               /\ now >= LastAlert(key) + 24 =>
                    /\ res.reason # Recency
                    /\ ( /\ DictGet(deal, "status", "") \in {"excellent", "good"}
                         /\ ignore ) => res.ok
    /\ ( /\ ret.op = "should_alert"
         /\ ~ret.force
         /\ should_alert_key(ret.deal) \in DOMAIN alert_history
         /\ now < LastAlert(should_alert_key(ret.deal)) + 24 ) => ~ret.value.ok

\* 23 hours after a successful send a call that passes the threshold and
\* ignores quiet hours is stopped by the recency check
C3_Witness ==
    /\ ret.op = "should_alert"
    /\ ~ret.force
    /\ ret.ignore_quiet_hours
    /\ should_alert_key(ret.deal) \in DOMAIN sends
    /\ should_alert_key(ret.deal) \in DOMAIN alert_history
    /\ now - LastAlert(should_alert_key(ret.deal)) = 23
    /\ ret.value = [ok |-> FALSE, reason |-> Recency]

\* C4: should_alert with force returns true in every state, for a deal of
\* any status (or none), inside and outside quiet hours, alerted before or
\* not.
C4_ForceAlways ==
    /\ \A deal \in DealUniverse, ignore \in BOOLEAN :
         should_alert(deal, TRUE, ignore).ok
    /\ (ret.op = "should_alert" /\ ret.force) => ret.value.ok
    /\ (ret.op = "alert_deal" /\ ret.force) => ret.decision.ok

\* a forced call for an expired deal, in quiet hours, less than 24 hours
\* after an alert for its key, returned true
C4_Witness ==
    /\ ret.op = "should_alert"
    /\ ret.force
    /\ ~ret.ignore_quiet_hours
    /\ DictGet(ret.deal, "status", "") = "expired"
    /\ is_quiet_hours(now)
    /\ should_alert_key(ret.deal) \in DOMAIN alert_history
    /\ now - LastAlert(should_alert_key(ret.deal)) < 24
    /\ ret.value.ok

\* the decisions should_alert takes, as a function of its arguments
Decisions ==
    [ deal \in AlertDeals, force \in BOOLEAN, ignore \in BOOLEAN |->
        should_alert(deal, force, ignore) ]

\* an alert_deal step whose send failed leaves the history, its file and
\* every decision of should_alert as they were
FailedSendStep ==
    (ret'.op = "alert_deal" /\ ret'.decision.ok /\ ~ret'.value) =>
        /\ alert_history' = alert_history
        /\ alert_history_file' = alert_history_file
        /\ Decisions' = Decisions

\* after a failed send that was not forced, should_alert for the same deal
\* is not stopped by the recency check
RetryAllowed ==
    (ret.op = "alert_deal" /\ ~ret.force /\ ret.decision.ok /\ ~ret.value) =>
        \A ignore \in BOOLEAN :
            should_alert(ret.deal, FALSE, ignore).reason # Recency

\* C5: a send that fails (email not configured, or the transport raises)
\* does not change the alert history, so the should_alert that follows is
\* not suppressed on account of it.
C5_FailedSend == []RetryAllowed /\ [][FailedSendStep]_vars

\* the transport failed for an alert that was due, and nothing is recorded
\* for its key
C5_Witness ==
    /\ ret.op = "alert_deal"
    /\ ~ret.force
    /\ ret.decision.ok
    /\ ~ret.value
    /\ email_configured
    /\ alert_deal_key(ret.deal) \notin DOMAIN alert_history
    /\ should_alert(ret.deal, FALSE, FALSE).ok

\* the count recorded for a key, 0 when there is none
AlertCount(history, key) ==
    IF key \in DOMAIN history THEN history[key].count ELSE 0

\* what a step may do to the alert history
AlertFrameStep ==
    IF ret'.op = "alert_deal" /\ ret'.value
    THEN LET key == alert_deal_key(ret'.deal)
         IN  /\ DOMAIN alert_history' = DOMAIN alert_history \cup {key}
             /\ alert_history'[key].last_alert = IsoFormat(now)
             /\ alert_history'[key].count = AlertCount(alert_history, key) + 1
             /\ \A other \in DOMAIN alert_history \ {key} :
                  alert_history'[other] = alert_history[other]
    ELSE alert_history' = alert_history

\* the count of every key is the number of successful sends for it
CountsAreSends ==
    /\ DOMAIN alert_history = DOMAIN sends
    /\ \A key \in DOMAIN sends : alert_history[key].count = sends[key]

\* C6: only a successful send changes the alert history: should_alert, a
\* suppressed alert_deal and a failed one leave it as it is, and a
\* successful send for a key sets the key's last alert to now, adds
\* exactly 1 to its count and changes no other key, so that the count of a
\* key is the number of successful sends for it.
C6_OnlySendsMutate == []CountsAreSends /\ [][AlertFrameStep]_vars

\* a second successful send for a key while another key has a record
C6_Witness ==
    /\ ret.op = "alert_deal"
    /\ ret.value
    /\ alert_history[alert_deal_key(ret.deal)].count = 2
    /\ alert_history[alert_deal_key(ret.deal)].last_alert = IsoFormat(now)

\* the stored dicts, as handed to the alert system
StoredDeals == { deals[key] : key \in DOMAIN deals }

\* C7: should_alert without force returns false for every deal whose
\* status is not excellent or good (acceptable, poor, expired, none),
\* whatever ignore_quiet_hours, the time and the alert history are; so a
\* stored record that expire_old_deals marked expired is never alerted
\* without force.
C7_BelowThreshold ==
    /\ \A deal \in DealUniverse \cup StoredDeals, ignore \in BOOLEAN :
         DictGet(deal, "status", "") \notin {"excellent", "good"} =>
            ~should_alert(deal, FALSE, ignore).ok
    /\ \A key \in DOMAIN deals, days \in ExpireDays, ignore \in BOOLEAN :
         ( \/ key \in expired_keys(days, now)
           \/ deals[key]["status"] = "expired" ) =>
            LET marked == DictSet(deals[key], "status", StatusValue("EXPIRED"))
            IN  ~should_alert(marked, FALSE, ignore).ok
    /\ ( /\ ret.op = "should_alert"
         /\ ~ret.force
         /\ DictGet(ret.deal, "status", "") \notin {"excellent", "good"} )
          => ~ret.value.ok

\* the stored flight was marked expired and then refused, although quiet
\* hours were ignored and nothing was ever sent for it
C7_Witness ==
    /\ ret.op = "should_alert"
    /\ ~ret.force
    /\ ret.ignore_quiet_hours
    /\ FlightKey \in DOMAIN deals
    /\ ret.deal = deals[FlightKey]
    /\ deals[FlightKey]["status"] = "expired"
    /\ FlightKey \notin DOMAIN alert_history
    /\ ~ret.value.ok

\* the quiet window as the configuration states it
InQuietWindow ==
    IF quiet_start > quiet_end
    THEN TimeOfDay(now) >= quiet_start \/ TimeOfDay(now) <= quiet_end
    ELSE quiet_start <= TimeOfDay(now) /\ TimeOfDay(now) <= quiet_end

\* C8: for a deal that is excellent or good, should_alert without force
\* and without ignore_quiet_hours returns false whenever the time of day
\* is in the quiet window (from start through midnight to end when
\* start > end, from start to end otherwise); with ignore_quiet_hours the
\* window never suppresses, and outside the window it makes no difference.
C8_QuietHours ==
    /\ \A deal \in DealUniverse :
         DictGet(deal, "status", "") \in {"excellent", "good"} =>
            /\ InQuietWindow =>
                 should_alert(deal, FALSE, FALSE)
                    = [ok |-> FALSE, reason |-> QuietReason]
            /\ should_alert(deal, FALSE, TRUE).reason # QuietReason
            /\ ~InQuietWindow =>
                 should_alert(deal, FALSE, FALSE) = should_alert(deal, FALSE, TRUE)
    /\ ( /\ ret.op = "should_alert"
         /\ ~ret.force
         /\ ret.ignore_quiet_hours ) => ret.value.reason # QuietReason

\* an excellent deal was refused at 07:00, the last hour of a window that
\* began at 22:00 the day before
C8_Witness ==
    /\ ret.op = "should_alert"
    /\ ~ret.force
    /\ ~ret.ignore_quiet_hours
    /\ DictGet(ret.deal, "status", "") = "excellent"
    /\ quiet_start > quiet_end
    /\ TimeOfDay(now) = quiet_end
    /\ now > 24
    /\ ret.value = [ok |-> FALSE, reason |-> QuietReason]

----------------------------------------------------------------------------
(* The calculator: packages are evaluated and compared *)

CalcFlight(status) == Flight(Mar27, Some(1600), 0, status)

CalcHotel(status) ==
    [ Hotel(Mar27, Some(800), 0, status) EXCEPT !.total_price_cash = Some(5600) ]

\* one package of every combination of component statuses (a component
\* may be absent) and of every status the package may have had before
GradePackages ==
    { TripPackage(CUN, Mar27, flight, hotel, status, 0) :
        flight \in {None} \cup { Some(CalcFlight(fs)) : fs \in DealStatus },
        hotel  \in {None} \cup { Some(CalcHotel(hs)) : hs \in DealStatus },
        status \in DealStatus }

\* the packages that are ranked: a flight of some tier and a savings figure
RankPackage(tier, savings) ==
    TripPackage(CUN, Mar27, Some(CalcFlight(tier)), None, "ACCEPTABLE", savings)

RankPackages ==
    { RankPackage("GOOD", 10), RankPackage("EXCELLENT", 5),
      RankPackage("GOOD", 20), RankPackage("EXCELLENT", 0),
      RankPackage("POOR", 0 - 5) }

Baselines == { None, Some(0), Some(2000) }

InitCalc ==
    /\ now = 0
    /\ deals = EmptyDict
    /\ price_history = EmptyDict
    /\ baselines = EmptyDict
    /\ deals_file = EmptyDict
    /\ history_file = EmptyDict
    /\ baseline_file = EmptyDict
    /\ alert_history = EmptyDict
    /\ alert_history_file = EmptyDict
    /\ quiet_start = 22
    /\ quiet_end = 7
    /\ email_configured = FALSE
    /\ \/ \E package \in GradePackages : packages = << package >>
       \/ \E n \in 0..MaxPackages : packages \in [ 1..n -> RankPackages ]
    /\ matrix = None
    /\ ret = [op |-> "init"]
    /\ lastPut = EmptyDict
    /\ appended = EmptyDict
    /\ nputs = 0
    /\ sends = EmptyDict
    /\ file_state = [ name \in Files |-> "ok" ]
    /\ warned = {}
    /\ tracker_up = TRUE
    /\ config = ServerConfig
    /\ offer = None

NextCalc ==
    \/ \E i \in 1..Len(packages), baseline_total \in Baselines :
         EvaluateTripPackage(i, baseline_total)
    \/ compare_options

SpecCalc == InitCalc /\ [][NextCalc]_vars

----------------------------------------------------------------------------
(* C9: the status of a package *)

\* the place of a tier in EXCELLENT > GOOD > ACCEPTABLE > POOR > EXPIRED
TierRank(status) ==
    CASE status = "EXCELLENT"  -> 4
      [] status = "GOOD"       -> 3
      [] status = "ACCEPTABLE" -> 2
      [] status = "POOR"       -> 1
      [] status = "EXPIRED"    -> 0

\* the worst of a non-empty set of tiers
WorstTier(statuses) ==
    CHOOSE s \in statuses : \A other \in statuses : TierRank(s) <= TierRank(other)

\* C9: after evaluate_trip_package the status of the package is the worst
\* tier among the components that are present, under EXCELLENT > GOOD >
\* ACCEPTABLE > POOR > EXPIRED, whatever the status was before the call.
C9_PackageWorstTier ==
    ( /\ ret.op = "evaluate_trip_package"
      /\ component_statuses(packages[ret.index]) # {} ) =>
        packages[ret.index].status = WorstTier(component_statuses(packages[ret.index]))

\* the same, for the packages none of whose components is EXPIRED
C9_WorstTierUnexpired ==
    ( /\ ret.op = "evaluate_trip_package"
      /\ component_statuses(packages[ret.index]) # {}
      /\ "EXPIRED" \notin component_statuses(packages[ret.index]) ) =>
        packages[ret.index].status = WorstTier(component_statuses(packages[ret.index]))

----------------------------------------------------------------------------
(* C10: the order of the ranking *)

\* the ranked options of the last comparison
Ranked == TheValue(matrix).ranked_options

\* the value of a savings figure, with none counted as 0
SavingsLE(a, b) == a.num * b.den <= b.num * a.den

\* how often an option with this status and this savings figure occurs
OptionCount(status, savings) ==
    Cardinality({ i \in 1..Len(Ranked) :
                    Ranked[i].status = status /\ Ranked[i].savings_pct = savings })

PackageCount(status, savings) ==
    Cardinality({ i \in 1..Len(packages) :
                    /\ StatusValue(packages[i].status) = status
                    /\ packages[i].savings_pct = savings })

\* the example of the ranking: GOOD/10, EXCELLENT/5, GOOD/20
IsExample ==
    /\ Len(packages) = 3
    /\ packages[1].status = "GOOD" /\ packages[1].savings_pct = Frac(10, 1)
    /\ packages[2].status = "EXCELLENT" /\ packages[2].savings_pct = Frac(5, 1)
    /\ packages[3].status = "GOOD" /\ packages[3].savings_pct = Frac(20, 1)

\* C10: compare_options on a non-empty list returns the evaluated packages,
\* each once, with ranks 1..n, ordered by tier (best first) and within a
\* tier by savings percentage (largest first); tiers GOOD, EXCELLENT, GOOD
\* with savings 10, 5, 20 come out as EXCELLENT/5, GOOD/20, GOOD/10.
C10_RankOrder ==
    (ret.op = "compare_options" /\ Len(packages) > 0) =>
        /\ Len(Ranked) = Len(packages)
        /\ \A i \in 1..Len(Ranked) :
             /\ Ranked[i].rank = i
             /\ OptionCount(Ranked[i].status, Ranked[i].savings_pct)
                  = PackageCount(Ranked[i].status, Ranked[i].savings_pct)
        /\ \A i \in 1..Len(Ranked), j \in 1..Len(Ranked) :
             i < j =>
               LET TierOf(o) == CHOOSE s \in DealStatus : StatusValue(s) = o.status
               IN  \/ TierRank(TierOf(Ranked[i])) > TierRank(TierOf(Ranked[j]))
                   \/ /\ TierRank(TierOf(Ranked[i])) = TierRank(TierOf(Ranked[j]))
                      /\ SavingsLE(Ranked[j].savings_pct, Ranked[i].savings_pct)
        /\ IsExample =>
             /\ Ranked[1].status = "excellent" /\ Ranked[1].savings_pct = Frac(5, 1)
             /\ Ranked[2].status = "good" /\ Ranked[2].savings_pct = Frac(20, 1)
             /\ Ranked[3].status = "good" /\ Ranked[3].savings_pct = Frac(10, 1)

\* the example was ranked
C10_Witness ==
    /\ ret.op = "compare_options"
    /\ IsExample
    /\ Len(Ranked) = 3
    /\ Ranked[1].status = "excellent"
    /\ Ranked[3].savings_pct = Frac(10, 1)

----------------------------------------------------------------------------
(* C11: the contents of the store follow the operations *)

\* the identities whose latest put went to the key and was not removed
PutsUnder(key) ==
    { id \in DOMAIN lastPut : generate_deal_key(lastPut[id]) = key }

\* the stored dict rec is what a put of the deal at some instant wrote,
\* apart from a status that expiry may have set since
RecordOfPut(rec, deal) ==
    \E t \in {0} \cup QueryClock :
        \E status \in {StatusValue(deal.status), StatusValue("EXPIRED")} :
            /\ t <= now
            /\ rec = DictSet(deal_record(deal, t), "status", status)

\* what get_deal and get_all_deals have just returned
ReadsFollowPuts ==
    /\ ret.op = "get_deal" =>
         IF PutsUnder(ret.key) = {} THEN IsNone(ret.value)
         ELSE /\ ~IsNone(ret.value)
              /\ \A id \in PutsUnder(ret.key) :
                   RecordOfPut(TheValue(ret.value), lastPut[id])
    /\ ret.op = "get_all_deals" =>
         /\ \A rec \in ret.value :
              /\ \E key \in DOMAIN deals : deals[key] = rec
              /\ ~IsNone(ret.status_filter) =>
                   rec["status"] = StatusValue(TheValue(ret.status_filter))
         /\ \A key \in DOMAIN deals :
              ( \/ IsNone(ret.status_filter)
                \/ deals[key]["status"] = StatusValue(TheValue(ret.status_filter)) )
                 => deals[key] \in ret.value
         /\ IsNone(ret.status_filter) =>
              Cardinality(ret.value) = Cardinality(DOMAIN deals)

\* remove_deal(key) takes the record of the key away, if there is one, and
\* touches no other record
DeleteStep ==
    \A key \in QueryKeys :
        remove_deal(key) =>
            /\ DOMAIN deals' = (DOMAIN deals) \ {key}
            /\ \A other \in DOMAIN deals' : deals'[other] = deals[other]

\* C11: get(k) returns the record of the latest put under k unless a
\* delete(k) followed it, and nothing otherwise; delete(k) removes record k
\* only and is a no-op when k is absent; list(s) returns exactly the stored
\* records of status s and list() all of them.
C11_StoreContents == []ReadsFollowPuts /\ [][DeleteStep]_vars

\* a key was put twice, the second time later and at another price, and
\* then looked up
C11_Witness ==
    /\ ret.op = "get_deal"
    /\ ~IsNone(ret.value)
    /\ nputs = 2
    /\ Cardinality(DOMAIN deals) = 1
    /\ TheValue(ret.value)["_updated_at"] = IsoFormat(30)
    /\ TheValue(ret.value)["price_cash"] = Some(250)

----------------------------------------------------------------------------
(* C12: expiry by age *)

\* the stored record was found more than days days (of 24 hours) before t
FoundMoreThanDaysBefore(rec, days, t) ==
    /\ "found_at" \in DOMAIN rec
    /\ t - FromIsoFormat(rec["found_at"]) > 24 * days

\* the stored record was found more than days whole days before t, that is
\* at least days + 1 days before t
FoundWholeDaysBefore(rec, days, t) ==
    /\ "found_at" \in DOMAIN rec
    /\ t - FromIsoFormat(rec["found_at"]) >= 24 * (days + 1)

\* what a step of expire_old_deals leaves alone
ExpiryFrame ==
    /\ DOMAIN deals' = DOMAIN deals
    /\ \A key \in DOMAIN deals :
         /\ DOMAIN deals'[key] = DOMAIN deals[key]
         /\ \A field \in (DOMAIN deals[key]) \ {"status"} :
              deals'[key][field] = deals[key][field]
    /\ price_history' = price_history
    /\ baselines' = baselines
    /\ history_file' = history_file
    /\ baseline_file' = baseline_file

ExpireStep ==
    ret'.op = "expire_old_deals" =>
        /\ ExpiryFrame
        /\ \A key \in DOMAIN deals :
             IF FoundMoreThanDaysBefore(deals[key], ret'.days, now)
             THEN deals'[key]["status"] = StatusValue("EXPIRED")
             ELSE deals'[key]["status"] = deals[key]["status"]

\* C12: expire_old_deals(d) sets the status to EXPIRED on every stored
\* record whose found_at is more than d days before now and on no other
\* record; it removes no record, changes no field other than status and
\* leaves the price history and the baselines as they were.
C12_ExpireOlderThan == [][ExpireStep]_vars

ExpireWholeDaysStep ==
    ret'.op = "expire_old_deals" =>
        /\ ExpiryFrame
        /\ \A key \in DOMAIN deals :
             IF FoundWholeDaysBefore(deals[key], ret'.days, now)
             THEN deals'[key]["status"] = StatusValue("EXPIRED")
             ELSE deals'[key]["status"] = deals[key]["status"]

\* the same with the age counted in whole days: a record is marked once it
\* is d + 1 days old
C12_ExpireWholeDays == [][ExpireWholeDaysStep]_vars

----------------------------------------------------------------------------
(* C13: one observation per priced put *)

\* the cash price a put observes: the fare of a flight, the nightly rate
\* of a hotel
ObservedPrice(deal) ==
    CASE deal.kind = "flight" -> deal.price_cash
      [] deal.kind = "hotel"  -> deal.price_per_night_cash
      [] OTHER                -> None

\* route+month of a flight, property+month of a hotel
SeriesOf(deal) ==
    IF deal.kind = "flight"
    THEN deal.origin \o <<"-">> \o deal.destination \o <<"-">>
           \o DateYearMonth(deal.departure_date)
    ELSE <<"hotel", "-">> \o deal.property_name \o <<"-">>
           \o DateYearMonth(deal.check_in)

PricedPut(deal) ==
    /\ deal.kind \in {"flight", "hotel"}
    /\ ~IsNone(ObservedPrice(deal))
    /\ TheValue(ObservedPrice(deal)) > 0

PutStep ==
    \A deal \in QueryOffers :
        add_deal(deal) =>
            IF PricedPut(deal)
            THEN LET key == SeriesOf(deal)
                     old == IF key \in DOMAIN price_history
                            THEN price_history[key].prices ELSE << >>
                     new == price_history'[key].prices
                     obs == [timestamp |-> IsoFormat(now),
                             price |-> TheValue(ObservedPrice(deal))]
                 IN  /\ key \in DOMAIN price_history'
                     /\ DOMAIN price_history' = DOMAIN price_history \cup {key}
                     /\ \A other \in (DOMAIN price_history') \ {key} :
                          price_history'[other] = price_history[other]
                     /\ Len(old) < HistoryLimit => new = Append(old, obs)
                     /\ Len(old) >= HistoryLimit =>
                          new = SubSeq(old, 2, Len(old)) \o << obs >>
                     /\ history_file' = price_history'
            ELSE /\ price_history' = price_history
                 /\ history_file' = history_file

----------------------------------------------------------------------------
(* C14: durability *)

StoreOperations ==
    {"add_deal", "remove_deal", "expire_old_deals", "set_baseline_price"}

\* what a tracker started now on the data directory would hold
PersistedDeals == load_json("deals", deals_file, EmptyDict)

PersistedHistory == load_json("price_history", history_file, EmptyDict)

PersistedBaselines == load_json("baseline_prices", baseline_file, EmptyDict)

\* after a completed operation the three files hold the three collections
SavedAfterOperation ==
    ret.op \in StoreOperations =>
        /\ PersistedDeals = deals
        /\ PersistedHistory = price_history
        /\ PersistedBaselines = baselines

\* a start that follows a completed operation finds what the tracker before
\* it held, so get, list, price history and baseline lookups answer alike
RestartStep ==
    (ret.op \in StoreOperations /\ ret'.op = "restart") =>
        /\ ~ret'.raised
        /\ deals' = deals
        /\ price_history' = price_history
        /\ baselines' = baselines

\* C14: after every completed store operation (put, delete, expiry, set
\* baseline) each of the three persisted collections equals the collection
\* in memory, and a store started afterwards on the same data directory
\* holds the same deals, price history and baselines.
C14_Durability == []SavedAfterOperation /\ [][RestartStep]_vars

\* a tracker was started after deals were put and expired and a baseline
\* set, and holds all of it
C14_Witness ==
    /\ ret.op = "restart"
    /\ ~ret.raised
    /\ \A name \in Files : file_state[name] = "ok"
    /\ \E key \in DOMAIN deals : deals[key]["status"] = "expired"
    /\ DOMAIN price_history # {}
    /\ DOMAIN baselines # {}
    /\ deals = deals_file
    /\ Cardinality(DOMAIN deals) = 2

----------------------------------------------------------------------------
(* C15: a crash inside a save *)

\* C15: if the process dies at any point while a collection is saved, the
\* file holds afterwards a complete snapshot, the one from before or the
\* new one, and never an empty or partly written document.
C15_CrashSafe ==
    ret.op = "crash" =>
        \A name \in Files : file_state[name] # "malformed"

----------------------------------------------------------------------------
(* Starts on a data directory that earlier runs left behind, with files  *)
(* that are whole, malformed or unreadable                                *)

LeftDeals ==
    DictSet(EmptyDict, FlightKey, deal_record(AlertOffer, 0))

LeftHistory == update_price_history(EmptyDict, AlertOffer, 0)

LeftBaselines ==
    DictSet(EmptyDict, baseline_key(MSP, CUN, DateYearMonth(Mar27)), 400)

LeftAlerts == record_alert(EmptyDict, FlightKey, "good", 0)

FileStates == {"ok", "malformed", "unreadable"}

LoadClock == {30}

InitLoad ==
    /\ now = 0
    /\ deals = EmptyDict
    /\ price_history = EmptyDict
    /\ baselines = EmptyDict
    /\ deals_file \in {EmptyDict, LeftDeals}
    /\ history_file = LeftHistory
    /\ baseline_file = LeftBaselines
    /\ alert_history = EmptyDict
    /\ alert_history_file = LeftAlerts
    /\ quiet_start = 22
    /\ quiet_end = 7
    /\ email_configured = FALSE
    /\ packages = << >>
    /\ matrix = None
    /\ ret = [op |-> "init"]
    /\ lastPut = EmptyDict
    /\ appended = EmptyDict
    /\ nputs = 0
    /\ sends = EmptyDict
    /\ file_state \in [ Files -> FileStates ]
    /\ warned = {}
    /\ tracker_up = FALSE
    /\ config = ServerConfig
    /\ offer = None

NextLoad ==
    \/ \E t \in LoadClock : Tick(t)
    \/ RestartTracker
    \/ RestartAlerts
    \/ tracker_up /\ set_baseline_price(MSP, CUN, DateYearMonth(Mar27), 500)

SpecLoad == InitLoad /\ [][NextLoad]_vars

----------------------------------------------------------------------------
(* C16: a file that cannot be loaded *)

\* the collection a file belongs to, as it is in memory
Collection(name) ==
    CASE name = "deals"           -> deals
      [] name = "price_history"   -> price_history
      [] name = "baseline_prices" -> baselines
      [] name = "alert_history"   -> alert_history

FileContent(name) ==
    CASE name = "deals"           -> deals_file
      [] name = "price_history"   -> history_file
      [] name = "baseline_prices" -> baseline_file
      [] name = "alert_history"   -> alert_history_file

\* the files the start that has just happened was to load
FilesOfStart ==
    IF ret.op = "restart" THEN {"deals", "price_history", "baseline_prices"}
    ELSE {"alert_history"}

\* C16: when a file is unreadable or malformed at load, its collection
\* starts empty, the other collections load with what their files hold, no
\* error reaches the caller, and a warning reports the reset.
C16_CorruptLoad ==
    ret.op \in {"restart", "restart_alerts"} =>
        /\ ~ret.raised
        /\ \A name \in FilesOfStart :
             IF file_state[name] = "ok"
             THEN Collection(name) = FileContent(name) /\ name \notin warned
             ELSE Collection(name) = EmptyDict /\ name \in warned

\* the same for the tracker and files that are whole or malformed JSON
C16_TrackerMalformed ==
    ( /\ ret.op = "restart"
      /\ \A name \in FilesOfStart : file_state[name] # "unreadable" ) =>
        /\ ~ret.raised
        /\ \A name \in FilesOfStart :
             IF file_state[name] = "ok"
             THEN Collection(name) = FileContent(name) /\ name \notin warned
             ELSE Collection(name) = EmptyDict /\ name \in warned

----------------------------------------------------------------------------
(* The calculator on single offers: one flight or hotel object and one   *)
(* package, evaluated again and again                                     *)

Apr05 == [y |-> 2026, m |-> 4, d |-> 5]

United == <<"United">>

\* FlightDeal(...) with the fields the evaluation reads and writes
EvalFlight(destination, deal_type, price_cash, price_points, currency, airline) ==
    [ kind |-> "flight", origin |-> MSP, destination |-> destination,
      departure_date |-> Mar27, return_date |-> Apr03,
      deal_type |-> deal_type, price_cash |-> price_cash,
      price_points |-> price_points, points_currency |-> currency,
      taxes_fees |-> 50, airline |-> airline, cabin_class |-> "ECONOMY",
      stops |-> 0, cpp_value |-> None, total_value |-> None,
      savings_vs_cash |-> None, notes |-> << >>, source |-> "manual",
      found_at |-> 0, status |-> "ACCEPTABLE" ]

\* HotelDeal(...) with the fields the evaluation reads and writes
EvalHotel(check_in, deal_type, per_night, total_cash, total_points, currency) ==
    [ kind |-> "hotel", destination |-> CUN, property_name |-> Riu,
      check_in |-> check_in, check_out |-> Apr03, deal_type |-> deal_type,
      price_per_night_cash |-> per_night,
      total_price_cash |-> total_cash,
      total_price_points |-> total_points,
      points_currency |-> currency, resort_fees |-> 0,
      is_all_inclusive |-> deal_type = "ALL_INCLUSIVE",
      per_person_per_night |-> None, cpp_value |-> None,
      source |-> "manual", found_at |-> 0, status |-> "ACCEPTABLE" ]

EvalFlights ==
    { EvalFlight(CUN, "FLIGHT_CASH", Some(1500), None, None, Delta),
      EvalFlight(CUN, "FLIGHT_CASH", Some(0 - 50), None, None, Delta),
      EvalFlight(<<"FCO">>, "FLIGHT_CASH", Some(5000), None, None, United),
      EvalFlight(CUN, "FLIGHT_AWARD", None, Some(30000),
                 Some("delta_skymiles"), Delta),
      EvalFlight(CUN, "FLIGHT_AWARD", None, Some(0),
                 Some("delta_skymiles"), Delta),
      EvalFlight(CUN, "FLIGHT_AWARD", None, Some(0 - 100),
                 Some("amex_mr"), Delta),
      EvalFlight(CUN, "FLIGHT_AWARD", None, Some(30000), None, United),
      EvalFlight(CUN, "FLIGHT_AWARD", None, Some(23077),
                 Some("delta_skymiles"), United),
      EvalFlight(CUN, "FLIGHT_AWARD", None, Some(17308),
                 Some("amex_mr"), United),
      EvalFlight(CUN, "FLIGHT_AWARD", None, Some(10000),
                 Some("delta_skymiles"), United),
      EvalFlight(<<"FCO">>, "FLIGHT_AWARD", None, Some(30000),
                 Some("avios"), United) }

EvalHotels ==
    { EvalHotel(Mar27, "ALL_INCLUSIVE", Some(800), None, None, None),
      EvalHotel(Mar27, "ALL_INCLUSIVE", None, Some(5600), None, None),
      EvalHotel(Apr03, "ALL_INCLUSIVE", Some(800), None, None, None),
      EvalHotel(Apr03, "ALL_INCLUSIVE", None, Some(5600), None, None),
      EvalHotel(Apr05, "ALL_INCLUSIVE", Some(800), None, None, None),
      EvalHotel(Apr05, "ALL_INCLUSIVE", None, Some(5600), None, None),
      EvalHotel(Mar27, "HOTEL_CASH", Some(300), None, None, None),
      EvalHotel(Mar27, "ALL_INCLUSIVE", Some(1000), None, None, None),
      EvalHotel(Mar27, "ALL_INCLUSIVE", Some(1400), None, None, None),
      EvalHotel(Mar27, "ALL_INCLUSIVE", Some(1404), None, None, None),
      EvalHotel(Mar27, "ALL_INCLUSIVE", Some(1800), None, None, None),
      EvalHotel(Mar27, "ALL_INCLUSIVE", Some(2000), None, None, None),
      EvalHotel(Apr03, "HOTEL_POINTS", None, None, Some(100000),
                Some("hilton")),
      EvalHotel(Mar27, "HOTEL_POINTS", None, None, Some(100000), None),
      EvalHotel(Mar27, "HOTEL_POINTS", None, None, Some(0), Some("hilton")) }

EvalOffers == EvalFlights \cup EvalHotels

\* packages that last seven days, no day, and that end before they start
EvalPackages ==
    { TripPackage(CUN, departure_date,
                  Some(Flight(departure_date, Some(1500), 0, "GOOD")),
                  Some(Hotel(departure_date, Some(800), 0, "EXCELLENT")),
                  "ACCEPTABLE", 0) :
        departure_date \in { Mar27, Apr03, Apr05 } }

ValueConfigs == { ServerConfig, BareConfig }

InitEval ==
    /\ now = 0
    /\ deals = EmptyDict
    /\ price_history = EmptyDict
    /\ baselines = EmptyDict
    /\ deals_file = EmptyDict
    /\ history_file = EmptyDict
    /\ baseline_file = EmptyDict
    /\ alert_history = EmptyDict
    /\ alert_history_file = EmptyDict
    /\ quiet_start = 22
    /\ quiet_end = 7
    /\ email_configured = FALSE
    /\ \E package \in EvalPackages : packages = << package >>
    /\ matrix = None
    /\ ret = [op |-> "init"]
    /\ lastPut = EmptyDict
    /\ appended = EmptyDict
    /\ nputs = 0
    /\ sends = EmptyDict
    /\ file_state = [ name \in Files |-> "ok" ]
    /\ warned = {}
    /\ tracker_up = FALSE
    /\ config \in ValueConfigs
    /\ \E deal \in EvalOffers : offer = Some(deal)

NextEval ==
    \/ \E baseline_cash_price \in Baselines :
         EvaluateFlightDeal(baseline_cash_price)
    \/ \E baseline_cash_price \in Baselines :
         EvaluateHotelDeal(baseline_cash_price)
    \/ \E baseline_total \in Baselines : EvaluateTripPackage(1, baseline_total)

SpecEval == InitEval /\ [][NextEval]_vars

----------------------------------------------------------------------------
(* C17: an offer with a negative price *)

NegativePrice(o) == ~IsNone(o) /\ TheValue(o) < 0

\* C17: an offer whose cash or points price is negative is rejected by put
\* and by evaluation and is never partially applied, so the store never
\* holds a record with a negative price.
C17_NegativeRejected ==
    \A key \in DOMAIN deals :
        /\ "price_cash" \in DOMAIN deals[key]
             => ~NegativePrice(deals[key]["price_cash"])
        /\ "price_points" \in DOMAIN deals[key]
             => ~NegativePrice(deals[key]["price_points"])

----------------------------------------------------------------------------
(* C18: evaluation of degenerate offers *)

Evaluations == { "evaluate_flight_deal", "evaluate_hotel_deal" }

\* C18: no evaluation raises: a stay or a trip of no or of negative length,
\* a points price of zero and a currency the tables do not hold all give a
\* result.
C18_NeverRaises == ret.op \in Evaluations => IsNone(ret.raised)

\* what holds instead: the one evaluation that raises is that of an
\* all-inclusive stay whose check-out is the day of its check-in, and it
\* raises ZeroDivisionError
C18_RaisesOnZeroNights ==
    (ret.op \in Evaluations /\ ~IsNone(ret.raised))
        => /\ ret = [ op |-> "evaluate_hotel_deal", baseline |-> ret.baseline,
                      raised |-> Some("ZeroDivisionError") ]
           /\ TheValue(offer).is_all_inclusive
           /\ TheValue(offer).check_in = TheValue(offer).check_out

\* what holds as well: a points price that is not positive is worth 0.0
\* cents a point, and a flight in a currency the tables do not hold is
\* graded against 1.5 and 1.0
C18_DocumentedDefaults ==
    (ret.op = "evaluate_flight_deal"
       /\ TheValue(offer).deal_type = "FLIGHT_AWARD")
        => /\ TheValue(TheValue(offer).price_points) <= 0
                => /\ TheValue(offer).cpp_value = Some(FracZero)
                   /\ TheValue(offer).status = "POOR"
           /\ (TheValue(offer).points_currency \in { None, Some("avios") }
                 \/ config = BareConfig)
                => TheValue(offer).status
                     = cpp_status(TheValue(TheValue(offer).cpp_value),
                                  Frac(15, 10), Frac(1, 1))

----------------------------------------------------------------------------
(* C19: the key of an offer *)

MaxKeyPuts == 2

\* a flight between the given airports
RouteFlight(origin, destination) ==
    [ Flight(Mar27, Some(100), 0, "GOOD") EXCEPT
        !.origin = origin, !.destination = destination ]

\* offers that agree on the identity and differ in price, found_at and
\* source, offers that differ in one field of the identity, and two flights
\* whose airport names hold the character that joins the fields of a key
KeyOffers ==
    { Flight(Mar27, Some(100), 0, "GOOD"),
      [ Flight(Mar27, Some(250), 8, "GOOD") EXCEPT !.source = "scan" ],
      [ Flight(Mar27, Some(100), 0, "GOOD") EXCEPT
          !.deal_type = "FLIGHT_AWARD" ],
      RouteFlight(<<"MSP", "_", "T1">>, CUN),
      RouteFlight(MSP, <<"T1", "_", "CUN">>),
      Hotel(Mar27, Some(300), 0, "GOOD"),
      [ Hotel(Mar27, Some(400), 8, "GOOD") EXCEPT !.source = "scan" ],
      Hotel(Mar28, Some(300), 0, "GOOD"),
      Package(Mar27, "GOOD"),
      Package(Mar28, "GOOD") }

KeysOfOffers == { generate_deal_key(deal) : deal \in KeyOffers }

NextKeys ==
    \/ \E deal \in KeyOffers : nputs < MaxKeyPuts /\ add_deal(deal)
    \/ \E key \in KeysOfOffers : GetDeal(key)

SpecKeys == Init /\ [][NextKeys]_vars

\* C19: two offers that were put have the same key exactly when they are of
\* the same kind and agree on the identity tuple.
C19_KeyCollisionFree ==
    \A a, b \in DOMAIN lastPut :
        generate_deal_key(lastPut[a]) = generate_deal_key(lastPut[b]) <=> a = b

\* what holds instead: the key is a function of the identity tuple, so it
\* does not depend on price, found_at or source, and offers of different
\* kinds never share a key
C19_KeyOfIdentity ==
    \A a \in DOMAIN lastPut :
        /\ \A deal \in KeyOffers :
              Identity(deal) = a
                  => generate_deal_key(deal) = generate_deal_key(lastPut[a])
        /\ \A b \in DOMAIN lastPut :
              a.kind # b.kind
                  => generate_deal_key(lastPut[a]) # generate_deal_key(lastPut[b])

----------------------------------------------------------------------------
(* C20: evaluating and ranking a second time *)

\* an evaluation of a package leaves an object that an evaluation with the
\* same baseline does not change
EvaluateAgainStep ==
    \A i \in 1..Len(packages), baseline_total \in Baselines :
        EvaluateTripPackage(i, baseline_total)
            => evaluate_trip_package(packages'[i], baseline_total) = packages'[i]

\* after compare_options, evaluating the packages again changes none of
\* them, comparing them again returns the matrix that was returned, and
\* sorting the sorted list again leaves its order
RankAgain ==
    ret.op = "compare_options" =>
        /\ evaluate_all(packages) = packages
        /\ Some(comparison_matrix(packages)) = matrix
        /\ sort_packages(sort_packages(packages)) = sort_packages(packages)

MaxAgainPackages == 2

\* packages of one and of two components, and one without components
AgainPackages ==
    { RankPackage("GOOD", 10), RankPackage("EXCELLENT", 5),
      TripPackage(CUN, Mar27, Some(CalcFlight("GOOD")),
                  Some(CalcHotel("POOR")), "ACCEPTABLE", 0),
      Package(Mar28, "POOR") }

InitAgain ==
    /\ now = 0
    /\ deals = EmptyDict
    /\ price_history = EmptyDict
    /\ baselines = EmptyDict
    /\ deals_file = EmptyDict
    /\ history_file = EmptyDict
    /\ baseline_file = EmptyDict
    /\ alert_history = EmptyDict
    /\ alert_history_file = EmptyDict
    /\ quiet_start = 22
    /\ quiet_end = 7
    /\ email_configured = FALSE
    /\ \E n \in 0..MaxAgainPackages : packages \in [ 1..n -> AgainPackages ]
    /\ matrix = None
    /\ ret = [op |-> "init"]
    /\ lastPut = EmptyDict
    /\ appended = EmptyDict
    /\ nputs = 0
    /\ sends = EmptyDict
    /\ file_state = [ name \in Files |-> "ok" ]
    /\ warned = {}
    /\ tracker_up = FALSE
    /\ config = ServerConfig
    /\ offer = None

SpecAgain == InitAgain /\ [][NextCalc]_vars

\* C20: the evaluation of a package is idempotent: evaluated again with the
\* same configuration and baseline, every field of the package is what it
\* was; and ranking the packages again gives the same ranked output.
C20_Idempotent == []RankAgain /\ [][EvaluateAgainStep]_vars

\* packages of which the first was evaluated against the baseline 2000,
\* were evaluated again and ranked by compare_options
C20_Witness ==
    /\ ret.op = "compare_options"
    /\ Len(packages) >= 2
    /\ packages[1].total_cash_cost = 1600
    /\ packages[1].savings_vs_baseline = 400
    /\ packages[1].savings_pct = Frac(40000, 2000)
    /\ Len(TheValue(matrix).ranked_options) = Len(packages)

----------------------------------------------------------------------------
(* C21: ranking no package *)

NothingToCompare == [ error |-> "No packages to compare" ]

\* C21: compare_options on an empty list of packages does not raise: it
\* returns the result that says there is nothing to compare, and no package
\* was evaluated.
C21_EmptyRank ==
    (ret.op = "compare_options" /\ Len(packages) = 0)
        => /\ matrix = Some(NothingToCompare)
           /\ packages = << >>

\* compare_options was called on an empty list
C21_Witness ==
    /\ ret.op = "compare_options"
    /\ packages = << >>
    /\ ~IsNone(matrix)
    /\ DOMAIN TheValue(matrix) = { "error" }

----------------------------------------------------------------------------
(* C22: the superlatives of a ranking *)

MaxBestPackages == 2

FCO == <<"FCO">>

PVR == <<"PVR">>

\* a package to a destination with one flight of a tier and a price
BestPackage(destination, tier, price) ==
    TripPackage(destination, Mar27, Some(Flight(Mar27, Some(price), 0, tier)),
                None, "ACCEPTABLE", 0)

\* the cheapest package is of the worst tier, and two packages cost the same
BestPackages ==
    { BestPackage(CUN, "EXCELLENT", 1600), BestPackage(FCO, "POOR", 900),
      BestPackage(PVR, "GOOD", 1200), BestPackage(MSP, "ACCEPTABLE", 1200) }

InitBest ==
    /\ now = 0
    /\ deals = EmptyDict
    /\ price_history = EmptyDict
    /\ baselines = EmptyDict
    /\ deals_file = EmptyDict
    /\ history_file = EmptyDict
    /\ baseline_file = EmptyDict
    /\ alert_history = EmptyDict
    /\ alert_history_file = EmptyDict
    /\ quiet_start = 22
    /\ quiet_end = 7
    /\ email_configured = FALSE
    /\ \E n \in 0..MaxBestPackages : packages \in [ 1..n -> BestPackages ]
    /\ matrix = None
    /\ ret = [op |-> "init"]
    /\ lastPut = EmptyDict
    /\ appended = EmptyDict
    /\ nputs = 0
    /\ sends = EmptyDict
    /\ file_state = [ name \in Files |-> "ok" ]
    /\ warned = {}
    /\ tracker_up = FALSE
    /\ config = ServerConfig
    /\ offer = None

SpecBest == InitBest /\ [][NextCalc]_vars

\* the comparison names, as the package of lowest cost, the destination of
\* a ranked package that no ranked package undercuts
NamesACheapest ==
    \E i \in 1..Len(Ranked) :
        /\ TheValue(matrix).lowest_cost = Some(Ranked[i].destination)
        /\ \A j \in 1..Len(Ranked) : Ranked[i].total_cost <= Ranked[j].total_cost

\* C22: for a non-empty list, compare_options reports as best_value the
\* package of rank 1 and as lowest_cost a package whose total_cash_cost is
\* the minimum over the ranked packages, whatever its rank and tier are.
C22_Superlatives ==
    (ret.op = "compare_options" /\ Len(packages) > 0)
        => /\ TheValue(matrix).best_value = Some(Ranked[1].destination)
           /\ Ranked[1].rank = 1
           /\ NamesACheapest

\* a ranking whose cheapest package is the last and of the worst tier
C22_Witness ==
    /\ ret.op = "compare_options"
    /\ Len(packages) = 2
    /\ TheValue(matrix).best_value = Some(CUN)
    /\ TheValue(matrix).lowest_cost = Some(FCO)
    /\ Ranked[2].status = "poor"
    /\ Ranked[2].total_cost = 900
    /\ Ranked[1].total_cost = 1600

----------------------------------------------------------------------------
(* C23: the rate of a stay per person and night *)

FracEq(a, b) == a.num * b.den = b.num * a.den

Nights(deal) == DaysBetween(deal.check_out, deal.check_in)

\* the cash price of the whole stay
TotalCashCost(deal) ==
    IF Truthy(deal.total_price_cash) THEN TheValue(deal.total_price_cash)
    ELSE TheValue(deal.price_per_night_cash) * Nights(deal)

\* the status of a rate per person and night
RateBand(rate) ==
    IF FracLE(rate, Frac(250, 1)) THEN "EXCELLENT"
    ELSE IF FracLE(rate, Frac(350, 1)) THEN "GOOD"
    ELSE IF FracLE(rate, Frac(450, 1)) THEN "ACCEPTABLE"
    ELSE "POOR"

\* the hotel carries the rate total / (nights x family size) and the status
\* of that rate
RatedByBand(deal) ==
    /\ ~IsNone(deal.per_person_per_night)
    /\ FracEq(TheValue(deal.per_person_per_night),
              Frac(TotalCashCost(deal), Nights(deal) * FamilySize))
    /\ deal.status = RateBand(Frac(TotalCashCost(deal),
                                   Nights(deal) * FamilySize))
    /\ (TotalCashCost(deal) = 5600 /\ Nights(deal) = 7)
          => /\ FracEq(TheValue(deal.per_person_per_night), Frac(200, 1))
             /\ deal.status = "EXCELLENT"

\* C23: after evaluate_hotel_deal, every all-inclusive or cash hotel of at
\* least one night carries per_person_per_night = total cash cost /
\* (nights x family size) and the status of that rate: up to 250 EXCELLENT,
\* up to 350 GOOD, up to 450 ACCEPTABLE, above that POOR; 5600 for 7 nights
\* and a family of 4 is 200 and EXCELLENT.
C23_HotelRate ==
    ( /\ ret.op = "evaluate_hotel_deal"
      /\ TheValue(offer).deal_type \in { "HOTEL_CASH", "ALL_INCLUSIVE" }
      /\ Nights(TheValue(offer)) > 0 )
        => RatedByBand(TheValue(offer))

\* what holds instead: the hotels whose is_all_inclusive flag is set are
\* rated so, and the others keep the rate and the status they came with
C23_FlaggedHotelRate ==
    ( /\ ret.op = "evaluate_hotel_deal"
      /\ TheValue(offer).deal_type \in { "HOTEL_CASH", "ALL_INCLUSIVE" }
      /\ Nights(TheValue(offer)) > 0 )
        => IF TheValue(offer).is_all_inclusive
           THEN RatedByBand(TheValue(offer))
           ELSE /\ IsNone(TheValue(offer).per_person_per_night)
                /\ TheValue(offer).status = "ACCEPTABLE"

----------------------------------------------------------------------------
(* C24: the status of an award flight *)

\* r is x rounded to 2 decimal places: a number of hundredths that is at
\* most half a hundredth away from x (x.den > 0)
IsRounded2(x, r) ==
    /\ r.den = 100
    /\ 2 * (x.num * 100 - r.num * x.den) <= x.den
    /\ 2 * (r.num * x.den - x.num * 100) <= x.den

\* the cash price an award flight is measured against
CashEquivalent(deal, baseline_cash_price) ==
    IF Truthy(baseline_cash_price) THEN Frac(TheValue(baseline_cash_price), 1)
    ELSE estimate_flight_cash_price(deal)

\* ((cash - taxes) / points) x 100, in lowest terms (points > 0)
CentsPerPoint(cash, points, taxes) ==
    Reduce(Frac((cash.num - taxes * cash.den) * 100, points * cash.den))

\* the thresholds of a currency, and 1.5 and 1.0 for one that is not
\* configured
TargetOf(cfg, currency) ==
    IF currency \in DOMAIN cfg.target_cpp THEN cfg.target_cpp[currency]
    ELSE Frac(15, 10)

MinOf(cfg, currency) ==
    IF currency \in DOMAIN cfg.min_cpp THEN cfg.min_cpp[currency]
    ELSE Frac(1, 1)

\* the status the thresholds give to a value
ThresholdStatus(cpp, target, min) ==
    IF FracLE(FracMul(target, Frac(13, 10)), cpp) THEN "EXCELLENT"
    ELSE IF FracLE(target, cpp) THEN "GOOD"
    ELSE IF FracLE(min, cpp) THEN "ACCEPTABLE"
    ELSE "POOR"

\* the same, with a value that equals 1.3 times the target 1.5 counted as
\* below it
FloatThresholdStatus(cpp, target, min) ==
    IF FracEq(target, Frac(15, 10)) /\ FracEq(cpp, Frac(195, 100)) THEN "GOOD"
    ELSE ThresholdStatus(cpp, target, min)

\* an award flight with a positive points price was evaluated
AwardEvaluated ==
    /\ ret.op = "evaluate_flight_deal"
    /\ IsNone(ret.raised)
    /\ TheValue(offer).deal_type = "FLIGHT_AWARD"
    /\ TheValue(TheValue(offer).price_points) > 0

\* the currency of the flight under evaluation, "delta_skymiles" if none
CurrencyOfOffer ==
    IF IsNone(TheValue(offer).points_currency) THEN "delta_skymiles"
    ELSE TheValue(TheValue(offer).points_currency)

\* the flight carries the cents per point of its cash equivalent against
\* the points and the taxes of the family
CppOfFamily ==
    /\ ~IsNone(TheValue(offer).cpp_value)
    /\ IsRounded2(CentsPerPoint(CashEquivalent(TheValue(offer), ret.baseline),
                                TheValue(TheValue(offer).price_points) * FamilySize,
                                TheValue(offer).taxes_fees * FamilySize),
                  TheValue(TheValue(offer).cpp_value))

\* C24: an evaluated award flight carries the cents per point of its cash
\* equivalent (the baseline handed in, else the estimate) against
\* price_points x family size and taxes_fees x family size, and its status
\* is EXCELLENT when cpp >= target x 1.3, GOOD when cpp >= target,
\* ACCEPTABLE when cpp >= min and POOR otherwise, with the thresholds of its
\* currency, or 1.5 and 1.0 when the currency is not configured.
C24_AwardStatus ==
    AwardEvaluated
        => /\ CppOfFamily
           /\ TheValue(offer).status
                = ThresholdStatus(TheValue(TheValue(offer).cpp_value),
                                  TargetOf(config, CurrencyOfOffer),
                                  MinOf(config, CurrencyOfOffer))

\* what holds instead: the same, except that with the target 1.5 a value of
\* exactly 1.95 is GOOD
C24_AwardStatusFloat ==
    AwardEvaluated
        => /\ CppOfFamily
           /\ TheValue(offer).status
                = FloatThresholdStatus(TheValue(TheValue(offer).cpp_value),
                                       TargetOf(config, CurrencyOfOffer),
                                       MinOf(config, CurrencyOfOffer))

----------------------------------------------------------------------------
(* C25: cents per point *)

CashPrices == { 0, 201, 800, 900, 1200 }

PointsPrices == { 0 - 1, 0, 8, 20000, 45000, 50000 }

TaxesFees == { 0, 50 }

\* the calculator with no package at hand
InitCpp == InitBest /\ packages = << >>

NextCpp ==
    \/ \E cash_price \in CashPrices, points \in PointsPrices, taxes \in TaxesFees :
         CalculateCpp(cash_price, points, taxes)
    \/ \E cash_price \in CashPrices, points \in PointsPrices, taxes \in TaxesFees :
         QuickCppCalc(cash_price, points, taxes)

SpecCpp == InitCpp /\ [][NextCpp]_vars

\* C25: the value calculate_cpp returns is ((cash - taxes) / points) x 100
\* rounded to 2 decimal places when points > 0 (1.67 for 800, 45000, 50) and
\* 0.0 when points <= 0, and quick_cpp_calc returns the value calculate_cpp
\* returns for the same arguments.
C25_CentsPerPoint ==
    ret.op \in { "calculate_cpp", "quick_cpp_calc" }
        => /\ ret.points > 0
                => IsRounded2(CentsPerPoint(Frac(ret.cash_price, 1), ret.points,
                                            ret.taxes),
                              ret.value)
           /\ ret.points <= 0 => FracEq(ret.value, FracZero)
           /\ (ret.cash_price = 800 /\ ret.points = 45000 /\ ret.taxes = 50)
                => ret.value = Frac(167, 100)
           /\ calculate_cpp(Frac(ret.cash_price, 1), ret.points, ret.taxes)
                = quick_cpp_calc(ret.cash_price, ret.points, ret.taxes)

\* calculate_cpp(800, 45000, 50) returned 1.67
C25_Witness ==
    ret = [ op |-> "calculate_cpp", cash_price |-> 800, points |-> 45000,
            taxes |-> 50, value |-> Frac(167, 100) ]

----------------------------------------------------------------------------
(* C26: the trend of a series *)

MaxTrendPrices == 4

\* 10.00, 11.00, 9.00, 10.50, 11.55, 9.45 and 20.00
TrendPrices == { 1000, 1100, 900, 1050, 1155, 945, 2000 }

TrendRoute == <<"MSP", "-", "CUN", "-", "2026", "-", "03">>

\* the observations of the route
TrendSeries ==
    IF TrendRoute \in DOMAIN price_history
    THEN price_history[TrendRoute].prices ELSE << >>

NextTrend ==
    \/ \E price \in TrendPrices :
         Len(TrendSeries) < MaxTrendPrices /\ AddPrice(TrendRoute, price)
    \/ GetTrend(TrendRoute)
    \/ GetBaseline(TrendRoute)

SpecTrend == Init /\ [][NextTrend]_vars

\* the trend of the claim: of fewer than 2 observations "stable", else by
\* the change from the first to the last of the latest 3 (or 2)
TrendOf(prices) ==
    IF Len(prices) < 2 THEN "stable"
    ELSE LET n     == Min(3, Len(prices))
             first == prices[Len(prices) - n + 1].price
             last  == prices[Len(prices)].price
         IN  IF (last - first) * 100 > 10 * first THEN "rising"
             ELSE IF (last - first) * 100 < 0 - 10 * first THEN "dropping"
             ELSE "stable"

\* C26: get_trend is "stable" for a series of fewer than 2 observations;
\* otherwise it compares the first and the last of the latest up to 3
\* observations and is "rising" for a change above +10%, "dropping" for a
\* change below -10% and "stable" otherwise, a change of exactly 10% up or
\* down included.
C26_Trend == ret.op = "get_trend" => ret.value = TrendOf(TrendSeries)

\* what holds instead: the same for series of whole prices
C26_TrendOfWholePrices ==
    (ret.op = "get_trend"
       /\ \A i \in 1..Len(TrendSeries) : TrendSeries[i].price % 100 = 0)
        => ret.value = TrendOf(TrendSeries)

----------------------------------------------------------------------------
(* C27: the table of baseline prices *)

MaxBaselinePuts == 1

\* routes of airports, two of them with a name that holds the character
\* that joins the fields of a key
BaselineRoutes ==
    { << MSP, CUN >>, << MSP, <<"FCO">> >>,
      << <<"MSP", "-", "T1">>, CUN >>, << MSP, <<"T1", "-", "CUN">> >> }

BaselineMonth == DateYearMonth(Mar27)

NextBaseline ==
    \/ \E t \in DurableClock : Tick(t)
    \/ \E deal \in DurableOffers : nputs < MaxBaselinePuts /\ add_deal(deal)
    \/ \E key \in DurableKeys : remove_deal(key)
    \/ \E days \in ExpireDays : expire_old_deals(days)
    \/ \E route \in BaselineRoutes, price \in BaselinePrices :
         set_baseline_price(route[1], route[2], BaselineMonth, price)
    \/ \E route \in BaselineRoutes :
         GetBaselinePrice(route[1], route[2], BaselineMonth)

SpecBaseline == Init /\ [][NextBaseline]_vars

\* the baseline of a route after the step
BaselineAfter(route) ==
    LET key == baseline_key(route[1], route[2], BaselineMonth)
    IN  IF key \in DOMAIN baselines' THEN Some(baselines'[key]) ELSE None

\* a put, a delete and an expiry leave the table alone
ObservationsKeepTable ==
    ( \/ \E deal \in DurableOffers : add_deal(deal)
      \/ \E key \in DurableKeys : remove_deal(key)
      \/ \E days \in ExpireDays : expire_old_deals(days) )
        => UNCHANGED << baselines, baseline_file >>

\* setting the baseline of a route makes it the baseline of that route,
\* leaves the baseline of every route in Others, and leaves the deals and
\* the price history
SetsOneBaseline(Others(_)) ==
    \A route \in BaselineRoutes, price \in BaselinePrices :
        set_baseline_price(route[1], route[2], BaselineMonth, price)
            => /\ UNCHANGED << deals, deals_file, price_history, history_file >>
               /\ BaselineAfter(route) = Some(price)
               /\ \A other \in Others(route) :
                    BaselineAfter(other)
                      = get_baseline_price(other[1], other[2], BaselineMonth)

\* get_baseline_price answers from the table, and with nothing before the
\* first baseline is set
GetAnswersFromTable ==
    /\ ret.op = "init" =>
         \A route \in BaselineRoutes :
            get_baseline_price(route[1], route[2], BaselineMonth) = None
    /\ ret.op = "get_baseline_price" =>
         ret.value = get_baseline_price(ret.origin, ret.destination, ret.month)

OtherRoutes(route) == BaselineRoutes \ { route }

OtherKeys(route) ==
    { other \in BaselineRoutes :
        baseline_key(other[1], other[2], BaselineMonth)
          # baseline_key(route[1], route[2], BaselineMonth) }

\* C27: no put, delete or expiry changes an entry of the table of baseline
\* prices; setting a baseline changes no deal record and no price series;
\* and get_baseline_price(origin, destination, month) returns the price of
\* the latest set_baseline_price for that triple, and nothing if there was
\* none.
C27_BaselineTable ==
    /\ []GetAnswersFromTable
    /\ [][ObservationsKeepTable /\ SetsOneBaseline(OtherRoutes)]_vars

\* what holds instead: the same with "for that key" in place of "for that
\* triple"
C27_BaselineTableByKey ==
    /\ []GetAnswersFromTable
    /\ [][ObservationsKeepTable /\ SetsOneBaseline(OtherKeys)]_vars

----------------------------------------------------------------------------
(* C28: the key alert_deal records under and the key should_alert consults *)

\* a send is on record, under the key alert_deal uses, less than 24 hours ago
SentWithinDay(deal) ==
    /\ alert_deal_key(deal) \in DOMAIN alert_history
    /\ now - LastAlert(alert_deal_key(deal)) < ThrottleHours

\* an alert_deal without force for a deal sent less than 24 hours ago
\* sends nothing
SecondSendStep(Candidates) ==
    \A deal \in Candidates, transport_ok \in BOOLEAN :
        (alert_deal(deal, FALSE, transport_ok) /\ SentWithinDay(deal)) =>
            /\ ~ret'.value
            /\ sends' = sends

\* the dicts that carry a stored key
KeyedDeals == { deal \in DealUniverse : "_key" \in DOMAIN deal }

\* C28: for every deal, with or without a stored '_key', alert_deal records
\* a successful send under the key should_alert consults for the recency
\* check, so a second alert_deal without force for the same deal within 24
\* hours of a successful one sends nothing.
C28_SameKey == [][SecondSendStep(AlertDeals)]_vars

\* the same for the dicts that carry a stored '_key'
C28_SameKeyWhenStored ==
    /\ [](\A deal \in KeyedDeals :
            alert_deal_key(deal) = should_alert_key(deal))
    /\ [][SecondSendStep(AlertDeals \cap KeyedDeals)]_vars

\* the two keys of a dict without a stored '_key' differ
C28_KeysDiffer ==
    \A deal \in DealUniverse \ KeyedDeals :
        alert_deal_key(deal) # should_alert_key(deal)

----------------------------------------------------------------------------
(* C29: the baseline of a series under further puts *)

MaxStablePuts == 101

StablePrices == {100, 200}

\* the last price observed on the route, 0 before the first
LastObserved ==
    IF EvictSeries \in DOMAIN price_history
    THEN price_history[EvictSeries].prices[
             Len(price_history[EvictSeries].prices)].price
    ELSE 0

\* puts on one route whose price never goes down, and reads of its baseline
NextStable ==
    \/ \E price \in StablePrices :
         /\ nputs < MaxStablePuts
         /\ price >= LastObserved
         /\ add_deal(Flight(Mar27, Some(price), 0, "GOOD"))
    \/ GetBaseline(EvictSeries)

SpecStable == Init /\ [][NextStable]_vars

\* a put on a series of at least 3 and at most limit observations leaves
\* its baseline as it was
KeepsBaseline(limit) ==
    \A price \in StablePrices :
        ( /\ add_deal(Flight(Mar27, Some(price), 0, "GOOD"))
          /\ EvictSeries \in DOMAIN price_history
          /\ Len(price_history[EvictSeries].prices) >= 3
          /\ Len(price_history[EvictSeries].prices) <= limit ) =>
            get_baseline(price_history'[EvictSeries].prices)
              = get_baseline(price_history[EvictSeries].prices)

\* C29: once a series has at least 3 observations, its baseline (the mean
\* of the earliest observations) is not changed by any number of further
\* puts on the same route.
C29_StableBaseline == [][KeepsBaseline(MaxStablePuts)]_vars

\* the baseline is kept by every put that evicts nothing, that is while
\* the series has fewer than 100 observations
C29_StableUntilEviction == [][KeepsBaseline(HistoryLimit - 1)]_vars

----------------------------------------------------------------------------
(* C30: what becomes of an alert that quiet hours suppressed *)

\* the alert system with its default window (22:00 to 07:00) and a working
\* transport, under a clock that keeps running up to 08:00 of the next day;
\* no call of the caller is ever bound to happen, and the class starts no
\* thread or timer
InitQueued ==
    /\ InitAlert
    /\ quiet_start = 22
    /\ quiet_end = 7
    /\ email_configured

SpecQueued ==
    InitQueued /\ [][NextAlert]_vars /\ WF_vars(\E t \in AlertClock : Tick(t))

\* the successful sends on record for the deal
SentCount(deal) == DictGet(sends, alert_deal_key(deal), 0)

\* alert_deal has just refused the deal on account of quiet hours
QuietSuppressed(deal) ==
    /\ ret.op = "alert_deal"
    /\ ret.deal = deal
    /\ ~ret.value
    /\ ret.decision = [ok |-> FALSE, reason |-> QuietReason]

\* C30: an alert that should_alert suppresses because of quiet hours is
\* queued: the alert for that deal is eventually sent after the quiet
\* window has ended, without the caller submitting the deal again.
C30_QueuedAlertSent ==
    \A deal \in AlertDeals, n \in 0..MaxSends :
        (QuietSuppressed(deal) /\ SentCount(deal) = n)
            ~> (SentCount(deal) > n /\ ~is_quiet_hours(now))

\* the clock always reaches the end of the quiet window
C30_WindowEnds == <>(~is_quiet_hours(now))

\* a call that quiet hours suppress leaves the alert system as it was:
\* nothing is kept of the deal, in memory or on disk
C30_NothingKept ==
    [][ (ret'.op = "alert_deal" /\ ret'.decision.reason = QuietReason) =>
          UNCHANGED << alertVars, storeVars, configVars, diskVars >> ]_vars

====
